---------------------------- MODULE Spec2Model ----------------------------
(***************************************************************************)
(* Model of the recording orchestrator (AudioRecordingManager) of          *)
(* src-tauri/src/managers/audio.rs together with the system-audio capture  *)
(* backends it owns, and of the sliding-window auto-transcription loop.    *)
(*                                                                         *)
(* Specification Spec: every public method of the manager is one atomic    *)
(* action (a call by one thread that runs to completion or hangs on a      *)
(* lock that can never be released).  Audio is modelled as runs of         *)
(* samples; every block delivered by a capture source carries a fresh      *)
(* positive number, a run numbered Zero is padding.                        *)
(* Specification SpecPad: the padding step of stop_recording applied to    *)
(* segments around the one-second threshold.                               *)
(* Specification SpecLoop: the auto-transcription thread next to the       *)
(* capture callback.                                                       *)
(* Specification SpecThreads: the manager together with the number of      *)
(* auto-transcription threads it has spawned; SpecThreadsFair adds that a  *)
(* thread which is not blocked runs its next iteration.                    *)
(* Specification SpecSwitch: update_selected_device followed step by step  *)
(* for two calling threads.                                                *)
(* Specification SpecCapture: MacOSSystemAudio, the choice between the     *)
(* loopback device and the helper process; SpecBuffer adds its producers,  *)
(* its reads and the exit of the helper.                                   *)
(* Specification SpecCallback: the producer callback of each backend next  *)
(* to read_samples, sample by sample.                                      *)
(* Specification SpecReader: the reader thread of the helper's stdout,     *)
(* byte by byte.                                                           *)
(* Specification SpecWait: the loop's wait for the transcription model.    *)
(* Specification SpecVad: the smoothed detector of the recorder, frame by  *)
(* frame.                                                                  *)
(* Specification SpecSession: recording sessions of a constructed manager  *)
(* next to the capture callback, with the block count at session start.    *)
(* Specification SpecLocks: the lock() and drop sequences of the manager's  *)
(* methods for two threads, acquisition by acquisition.                    *)
(* Specification SpecStop: stop_recording statement by statement next to   *)
(* try_start_recording and the capture callback.                           *)
(* Specification SpecRequest: set_audio_source requests, each a setting    *)
(* write followed by the update_selected_device call of its spawned task.  *)
(* Specification SpecOnDemand: Spec without the direct stream calls.       *)
(***************************************************************************)
EXTENDS Integers, Sequences, FiniteSets, TLC

(* ------------------------------ bounds -------------------------------- *)
\* number of blocks a MacOSSystemAudio object is given by its producers
MaxCaptureProduced == 2
\* number of frames one producer callback is given
MaxFrames == 2
\* number of frames a capture source delivers in one behaviour
MaxSourceFrames == 3
\* number of bytes the helper process writes to its stdout in one behaviour
MaxBytes == 8
\* largest number of bytes one read of the helper's stdout returns
MaxRead == 5
\* number of segments the loop hands to the transcription consumer
MaxSegments == 2
\* number of frames fed to the smoothed detector
MaxVadFrames == 7
\* number of update_selected_device calls followed step by step
MaxCalls == 2
\* number of set_audio_source requests in one behaviour
MaxRequests == 3
\* number of blocks the capture sources produce in one behaviour
MaxProduced == 2
\* number of runs in a segment handed to the padding step
MaxRuns == 3
\* number of deliveries of the capture callback while the loop is observed
MaxLoopProduced == 4
\* number of auto-transcription threads alive at once that is followed
MaxThreads == 2

(* ------------------------- program constants --------------------------- *)
WHISPER_SAMPLE_RATE == 16000
\* samples per block a capture source delivers at once: a quarter of a second
BlockSize == WHISPER_SAMPLE_RATE \div 4

Idle == "Idle"
\* binding ids used by callers; "transcribe" is the id of the auto-start
Ids == {"transcribe", "b1"}
Platforms == {"macos", "windows"}
Sources == {"Microphone", "SystemAudio"}
Modes == {"AlwaysOn", "OnDemand"}
\* the padding sample 0.0
Zero == 0

\* constants of the auto-transcription loop
MIN_AUDIO_SECS == 2
OVERLAP_SECS == 1
MIN_SAMPLES == MIN_AUDIO_SECS * 16000
OVERLAP_SAMPLES == OVERLAP_SECS * 16000
SYSTEM_AUDIO_SAMPLE_RATE == 48000
TARGET_SAMPLE_RATE == 16000
\* Duration::from_millis(30), the frame length given to FrameResampler::new
FRAME_MILLIS == 30
\* "Max 10 seconds (20 * 500ms)"
MAX_WAIT == 20

VARIABLES
    platform,        \* target_os the binary was built for
    settings,        \* persisted AppSettings: always_on_microphone, audio_source
    phase,           \* "constructing" | "ready" | "failed" (AudioRecordingManager::new)
    state,           \* RecordingState: Idle or the binding id of Recording
    mode,            \* MicrophoneMode
    is_open,         \* manager.is_open
    is_recording,    \* manager.is_recording
    recorder,        \* manager.recorder (the microphone AudioRecorder)
    system_capture,  \* manager.system_capture (Option<Box<dyn SystemAudioCapture>>)
    dead,            \* manager locks held forever by a thread that hung
    produced,        \* number of blocks produced so far by capture sources
    cancelled,       \* blocks that were buffered by a session that was cancelled
    last,            \* the last call: operation, argument, result
    threads,         \* auto-transcription threads: spawned and not exited, blocked
    pad_call,        \* one evaluation of the padding step of stop_recording
    loop,            \* locals of the auto-transcription thread
    switch,          \* update_selected_device call by call: IS_UPDATING, callers
    capture,         \* a MacOSSystemAudio object and the last call made on it
    data             \* the component SpecCallback, SpecReader, SpecWait, SpecVad or
                     \* SpecSession follows: a backend's buffer, the wait, the detector

vars == <<platform, settings, phase, state, mode, is_open, is_recording,
          recorder, system_capture, dead, produced, cancelled, last,
          threads, pad_call, loop, switch, capture, data>>

\* the parts of the manager a call can change
manager == <<state, mode, is_open, is_recording, recorder, system_capture>>

\* what the manager's methods never touch
aside == <<pad_call, loop, switch, capture, data>>

(* ------------------------------ helpers -------------------------------- *)
\* A sample sequence is a sequence of runs: n consecutive samples that came
\* from the block numbered id (id = Zero: samples of value 0.0).
Run(id, n) == [id |-> id, n |-> n]
Block(id) == Run(id, BlockSize)

SampleIds(s) == {s[i].id : i \in 1..Len(s)}

\* Vec::len
RECURSIVE SampleLen(_)
SampleLen(s) == IF s = <<>> THEN 0 ELSE Head(s).n + SampleLen(Tail(s))

\* the first n samples of s
RECURSIVE TakeSamples(_, _)
TakeSamples(s, n) ==
    IF n <= 0 \/ s = <<>> THEN <<>>
    ELSE IF Head(s).n <= n
         THEN <<Head(s)>> \o TakeSamples(Tail(s), n - Head(s).n)
         ELSE <<Run(Head(s).id, n)>>

\* s without its first n samples
RECURSIVE DropSamples(_, _)
DropSamples(s, n) ==
    IF n <= 0 \/ s = <<>> THEN s
    ELSE IF Head(s).n <= n
         THEN DropSamples(Tail(s), n - Head(s).n)
         ELSE <<Run(Head(s).id, Head(s).n - n)>> \o Tail(s)

\* the same samples with adjacent runs of one block joined
RECURSIVE Joined(_)
Joined(s) ==
    IF Len(s) < 2 THEN s
    ELSE IF s[1].id = s[2].id
         THEN Joined(<<Run(s[1].id, s[1].n + s[2].n)>> \o SubSeq(s, 3, Len(s)))
         ELSE <<s[1]>> \o Joined(Tail(s))

\* the concatenation of the sequences of ss
RECURSIVE Flatten(_)
Flatten(ss) == IF ss = <<>> THEN <<>> ELSE Head(ss) \o Flatten(Tail(ss))

\* Vec::resize(new_len, value)
Resize(s, n, v) ==
    IF n > SampleLen(s) THEN Append(s, Run(v, n - SampleLen(s)))
    ELSE TakeSamples(s, n)

\* a variant of PadShort that pads whatever is at or below the threshold
PadShortInclusive(samples) ==
    IF SampleLen(samples) <= WHISPER_SAMPLE_RATE /\ SampleLen(samples) > 0
    THEN Resize(samples, (WHISPER_SAMPLE_RATE * 5) \div 4, Zero)
    ELSE samples

\* stop_recording, "Pad if very short"
PadShort(samples) ==
    IF SampleLen(samples) < WHISPER_SAMPLE_RATE /\ SampleLen(samples) > 0
    THEN Resize(samples, (WHISPER_SAMPLE_RATE * 5) \div 4, Zero)
    ELSE samples

(* --------------------- system-audio capture backend -------------------- *)
\* Option::None of manager.system_capture
NoCapture == [present |-> FALSE, capturing |-> FALSE, buf |-> <<>>]

\* MacOSSystemAudio::new / WindowsSystemAudio::new followed by a successful
\* start_capture (loopback device or helper process running)
StartedCapture == [present |-> TRUE, capturing |-> TRUE, buf |-> <<>>]

\* SystemAudioCapture::read_samples: drain everything buffered
read_samples_result(cap) == cap.buf
read_samples_after(cap) == [cap EXCEPT !.buf = <<>>]

(* ------------------------- microphone recorder ------------------------- *)
NoRecorder == [present |-> FALSE, open |-> FALSE, recording |-> FALSE, buf |-> <<>>]

\* create_audio_recorder + AudioRecorder::open
rec_open(rec) == [rec EXCEPT !.present = TRUE, !.open = TRUE]
\* AudioRecorder::start: begin a fresh recording
rec_start(rec) == [rec EXCEPT !.recording = rec.open, !.buf = <<>>]
\* AudioRecorder::stop: hand over what was recorded
rec_stop_result(rec) == rec.buf
rec_stop_after(rec) == [rec EXCEPT !.recording = FALSE, !.buf = <<>>]
\* AudioRecorder::close
rec_close(rec) == [rec EXCEPT !.open = FALSE, !.recording = FALSE, !.buf = <<>>]

(* ------------------------- manager as a record ------------------------- *)
Mgr == [state |-> state, mode |-> mode, is_open |-> is_open,
        is_recording |-> is_recording, recorder |-> recorder,
        system_capture |-> system_capture, dead |-> dead,
        settings |-> settings, opens |-> 0, spawned |-> 0, across_start |-> {}]

\* (opens counts the capture backends started during the current call,
\* spawned the auto-transcription threads it spawned; across_start holds the
\* locks the calling thread held while a backend was starting)

\* the samples the backend of the running session has buffered
SessionBuffered == IF recorder.recording THEN recorder.buf ELSE system_capture.buf

\* a lock can be taken unless the calling thread holds it (std::sync::Mutex
\* is not reentrant) or a hung thread holds it forever
CanLock(m, held, l) == l \notin held /\ l \notin m.dead

Ret(m, r) == [m |-> m, ret |-> r, seg |-> <<>>, raw |-> <<>>]
\* the caller blocks forever; every lock it holds stays held
Hang(m, held) == [m |-> [m EXCEPT !.dead = @ \cup held], ret |-> "hang",
                  seg |-> <<>>, raw |-> <<>>]

\* outcomes of the environment during one call: does the capture backend
\* (device / helper process / recorder stream) open, does AudioRecorder::start
\* succeed
Envs == [open_ok : BOOLEAN, start_ok : BOOLEAN]

(* --------------------------- stop_microphone_stream -------------------- *)
\* the "Stop System Capture" block exists for target_os = "macos" only
StopsSystemCapture(p) == p = "macos"

stop_microphone_stream(m, held) ==
    IF ~CanLock(m, held, "is_open") THEN Hang(m, held)
    ELSE IF ~m.is_open THEN Ret(m, "unit")
    ELSE LET h1 == held \cup {"is_open"} IN
    IF ~CanLock(m, h1, "did_mute") THEN Hang(m, h1)
    ELSE LET h2 == h1 \cup {"did_mute"} IN
    IF StopsSystemCapture(platform) /\ ~CanLock(m, h2, "system_capture")
    THEN Hang(m, h2)
    ELSE LET m1 == IF StopsSystemCapture(platform)
                   THEN [m EXCEPT !.system_capture = NoCapture]
                   ELSE m
             h3 == h2 \cup {"recorder"} IN
    IF ~CanLock(m1, h2, "recorder") THEN Hang(m1, h2)
    ELSE IF m1.recorder.present /\ ~CanLock(m1, h3, "is_recording")
    THEN Hang(m1, h3)
    ELSE LET m2 == IF m1.recorder.present
                   THEN [m1 EXCEPT !.is_recording = FALSE,
                                   !.recorder = rec_close(@)]
                   ELSE m1 IN
    IF ~CanLock(m2, h2, "state") THEN Hang(m2, h2)
    ELSE Ret([m2 EXCEPT !.state = Idle, !.is_open = FALSE], "unit")

(* ------------------ start_microphone_stream / try_start ---------------- *)
RECURSIVE start_microphone_stream(_, _, _)
RECURSIVE try_start_recording(_, _, _, _)

\* try_start_recording, "if let RecordingState::Idle = *state"
StartAllowedAlways(st) == TRUE

StartAllowed(st) == st = Idle

\* a variant of clear_buffer that leaves what is buffered
clear_buffer_never(cap) == cap

\* try_start_recording, "let _ = capture.read_samples(); // Clear buffer"
clear_buffer(cap) == read_samples_after(cap)

\* try_start_recording after the stream is ensured open: mark the session
start_session(m, h, id, env) ==
    IF m.settings.audio_source = "SystemAudio"
    THEN IF ~CanLock(m, h, "system_capture") THEN Hang(m, h)
         ELSE IF ~m.system_capture.present THEN Ret(m, "false")
         ELSE IF ~CanLock(m, h \cup {"system_capture"}, "is_recording")
         THEN Hang(m, h \cup {"system_capture"})
         ELSE Ret([m EXCEPT !.system_capture = clear_buffer(@),
                            !.is_recording = TRUE,
                            !.state = id], "true")
    ELSE IF ~CanLock(m, h, "recorder") THEN Hang(m, h)
         ELSE IF ~(m.recorder.present /\ env.start_ok) THEN Ret(m, "false")
         ELSE IF ~CanLock(m, h \cup {"recorder"}, "is_recording")
         THEN Hang(m, h \cup {"recorder"})
         ELSE Ret([m EXCEPT !.recorder = rec_start(@),
                            !.is_recording = TRUE,
                            !.state = id], "true")

try_start_recording(m, held, id, env) ==
    IF ~CanLock(m, held, "state") THEN Hang(m, held)
    ELSE LET h1 == held \cup {"state"} IN
    IF ~StartAllowed(m.state) THEN Ret(m, "false")
    ELSE IF ~CanLock(m, h1, "mode") THEN Hang(m, h1)
    ELSE LET r == IF m.mode = "OnDemand"
                  THEN start_microphone_stream(m, h1, env)
                  ELSE Ret(m, "ok") IN
    IF r.ret = "hang" THEN r
    ELSE IF r.ret = "err" THEN Ret(r.m, "false")
    ELSE start_session(r.m, h1, id, env)

\* start_microphone_stream, "if *open_flag": the already-open early return
AlreadyOpenNever(m) == FALSE

AlreadyOpen(m) == m.is_open

\* a variant of FailedStart that keeps the capture that failed to start
FailedStartStored(m) == [m EXCEPT !.is_open = TRUE, !.system_capture = StartedCapture]

\* start_microphone_stream, "Err(e) => { *open_flag = false; return Err(e) }"
\* ("Don't set system_capture if start failed")
FailedStart(m) == [m EXCEPT !.is_open = FALSE]

\* the thread calls capture.start_capture() or rec.open(..) with the guards of
\* the locks h alive
Starting(m, h) == [m EXCEPT !.across_start = @ \cup h]

start_microphone_stream(m, held, env) ==
    IF ~CanLock(m, held, "is_open") THEN Hang(m, held)
    ELSE LET h1 == held \cup {"is_open"}
             h2 == h1 \cup {"did_mute"} IN
    IF AlreadyOpen(m)
    THEN IF m.settings.always_on_microphone /\ m.settings.audio_source = "SystemAudio"
         THEN IF ~CanLock(m, h1, "is_recording") THEN Hang(m, h1)
              ELSE IF m.is_recording THEN Ret(m, "ok")
              ELSE LET r == try_start_recording(m, h1, "transcribe", env) IN
                   IF r.ret = "hang" THEN r ELSE Ret(r.m, "ok")
         ELSE Ret(m, "ok")
    ELSE IF ~CanLock(m, h1, "did_mute") THEN Hang(m, h1)
    ELSE IF m.settings.audio_source = "SystemAudio"
    THEN IF ~env.open_ok THEN Ret(FailedStart(Starting(m, h2)), "err")
         ELSE IF ~CanLock(m, h2, "system_capture") THEN Hang(Starting(m, h2), h2)
         ELSE LET m1 == [Starting(m, h2) EXCEPT !.system_capture = StartedCapture,
                                  !.is_open = TRUE,
                                  !.opens = @ + 1] IN
              IF m.settings.always_on_microphone
              THEN LET r == try_start_recording(m1, h2, "transcribe", env) IN
                   IF r.ret = "hang" THEN r
                   \* "std::thread::spawn(move || { ... loop { ... } })"
                   ELSE IF r.ret = "true"
                   THEN Ret([r.m EXCEPT !.spawned = @ + 1], "ok")
                   ELSE Ret(r.m, "ok")
              ELSE Ret(m1, "ok")
    ELSE IF ~CanLock(m, h2, "recorder") THEN Hang(m, h2)
         ELSE IF ~env.open_ok
         THEN Ret([Starting(m, h2 \cup {"recorder"})
                     EXCEPT !.recorder.present = TRUE], "err")
         ELSE Ret([Starting(m, h2 \cup {"recorder"})
                     EXCEPT !.recorder = rec_open(@), !.is_open = TRUE,
                            !.opens = @ + 1], "ok")


(* ------------------------ stop_recording / cancel ---------------------- *)
\* a variant of StopMatches that ignores the binding id
StopMatchesAnyId(st, id) == st # Idle

\* stop_recording, "RecordingState::Recording { binding_id: ref active }
\* if active == binding_id"
StopMatches(st, id) == st # Idle /\ st = id

\* stop_recording reads the system capture under cfg(target_os = "macos") only
ReadsSystemCapture(p) == p = "macos"

\* stop_recording, "In on-demand mode turn the mic off again"
CloseAfterStop(md) == md = "OnDemand"

\* the tail shared by stop_recording and cancel_recording: clear is_recording,
\* close the stream in on-demand mode
finish_session(m, held) ==
    IF ~CanLock(m, held, "is_recording") THEN Hang(m, held)
    ELSE LET m1 == [m EXCEPT !.is_recording = FALSE] IN
    IF ~CanLock(m1, held, "mode") THEN Hang(m1, held)
    ELSE IF CloseAfterStop(m1.mode) THEN stop_microphone_stream(m1, held)
    ELSE Ret(m1, "unit")

\* stop_recording, "let samples = ...": take the samples of the session
\* from the backend the settings name
take_samples(m, held) ==
    IF m.settings.audio_source = "SystemAudio"
    THEN IF ~ReadsSystemCapture(platform) THEN [Ret(m, "ok") EXCEPT !.raw = <<>>]
         ELSE IF ~CanLock(m, held, "system_capture") THEN Hang(m, held)
         ELSE IF m.system_capture.present
         THEN [Ret([m EXCEPT !.system_capture = read_samples_after(@)], "ok")
                  EXCEPT !.raw = read_samples_result(m.system_capture)]
         ELSE Ret(m, "ok")
    ELSE IF ~CanLock(m, held, "recorder") THEN Hang(m, held)
         ELSE IF m.recorder.present
         THEN [Ret([m EXCEPT !.recorder = rec_stop_after(@)], "ok")
                  EXCEPT !.raw = rec_stop_result(m.recorder)]
         ELSE Ret(m, "ok")

stop_recording(m, held, id) ==
    IF ~CanLock(m, held, "state") THEN Hang(m, held)
    ELSE IF ~StopMatches(m.state, id) THEN Ret(m, "none")
    ELSE LET t == take_samples([m EXCEPT !.state = Idle], held) IN
    IF t.ret = "hang" THEN t
    ELSE LET f == finish_session(t.m, held) IN
    IF f.ret = "hang" THEN f
    ELSE [m |-> f.m, ret |-> "some", seg |-> PadShort(t.raw), raw |-> t.raw]

cancel_recording(m, held) ==
    IF ~CanLock(m, held, "state") THEN Hang(m, held)
    ELSE IF m.state = Idle THEN Ret(m, "unit")
    ELSE LET m1 == [m EXCEPT !.state = Idle] IN
    IF ~CanLock(m1, held, "recorder") THEN Hang(m1, held)
    ELSE LET m2 == IF m1.recorder.present
                   THEN [m1 EXCEPT !.recorder = rec_stop_after(@)]
                   ELSE m1 IN
    finish_session(m2, held)

(* ------------------------------ update_mode ---------------------------- *)
update_mode(m, held, new_mode, env) ==
    IF ~CanLock(m, held, "mode") THEN Hang(m, held)
    ELSE LET guard == held \cup {"mode"} IN
    IF m.mode = "AlwaysOn" /\ new_mode = "OnDemand"
    THEN IF ~CanLock(m, guard, "state") THEN Hang(m, guard)
         ELSE IF m.state = Idle
         THEN LET r == stop_microphone_stream(m, held) IN
              IF r.ret = "hang" THEN r
              ELSE IF ~CanLock(r.m, held, "mode") THEN Hang(r.m, held)
              ELSE Ret([r.m EXCEPT !.mode = new_mode], "ok")
         \* mode_guard is still alive at "*self.mode.lock().unwrap() = new_mode"
         ELSE Hang(m, guard)
    ELSE IF m.mode = "OnDemand" /\ new_mode = "AlwaysOn"
    THEN LET r == start_microphone_stream(m, held, env) IN
         IF r.ret \in {"hang", "err"} THEN r
         ELSE IF ~CanLock(r.m, held, "mode") THEN Hang(r.m, held)
         ELSE Ret([r.m EXCEPT !.mode = new_mode], "ok")
    \* "_ => {}": mode_guard is still alive at the final lock of mode
    ELSE Hang(m, guard)

(* ------------------------- update_selected_device ---------------------- *)
\* the duplicate-call branch taken when IS_UPDATING is already set
update_duplicate(m, held, env) ==
    IF ~(m.settings.always_on_microphone /\ m.settings.audio_source = "SystemAudio")
    THEN Ret(m, "ok")
    ELSE IF ~CanLock(m, held, "is_open") THEN Hang(m, held)
    ELSE IF ~CanLock(m, held, "is_recording") THEN Hang(m, held)
    ELSE IF m.is_open /\ ~m.is_recording
    THEN LET r == try_start_recording(m, held, "transcribe", env) IN
         IF r.ret = "hang" THEN r ELSE Ret(r.m, "ok")
    ELSE Ret(m, "ok")

update_selected_device(m, held, env) ==
    IF "IS_UPDATING" \in m.dead THEN update_duplicate(m, held, env)
    ELSE LET guard == held \cup {"IS_UPDATING"} IN
    IF ~CanLock(m, guard, "is_open") THEN Hang(m, guard)
    ELSE IF ~m.is_open THEN Ret(m, "ok")
    ELSE LET r == stop_microphone_stream(m, guard) IN
    IF r.ret = "hang" THEN r
    ELSE LET q == start_microphone_stream(r.m, guard, env) IN
    IF q.ret = "hang" THEN q ELSE Ret(q.m, q.ret)

(* ------------------------ get_system_audio_status ---------------------- *)
get_system_audio_status(m, held) ==
    IF ~CanLock(m, held, "is_open") THEN Hang(m, held)
    ELSE IF ~m.is_open THEN Ret(m, "closed")
    ELSE IF ~CanLock(m, held, "system_capture") THEN Hang(m, held)
    ELSE IF m.system_capture.present /\ m.system_capture.buf # <<>>
    THEN Ret([m EXCEPT !.system_capture = read_samples_after(@)], "has_audio")
    ELSE Ret(m, "no_audio")


(* ------------------------------- actions ------------------------------- *)
Settings == [always_on_microphone : BOOLEAN, audio_source : Sources]

\* no auto-transcription thread spawned yet.  The threads are followed
\* (counted) in SpecThreads and SpecLoop; Spec and SpecPad leave them out.
NoThreads == [followed |-> FALSE, running |-> 0, blocked |-> 0]

\* no padding step observed
NoPad == [samples |-> <<>>, returned |-> <<>>, done |-> FALSE]

\* no auto-transcription thread
\* (window: the accumulation buffer as the last iteration found it at
\* "let current_buffer_size = accumulated_buffer.len()"; pushed: the blocks
\* given to resampler.push, one element per call)
NoLoop == [running |-> FALSE, resampler |-> <<>>, accumulated_buffer |-> <<>>,
           segments |-> <<>>, appended |-> <<>>, window |-> <<>>,
           pushed |-> <<>>]

\* MacOSSystemAudio::new
\* (stream: the worker thread of the loopback device holds a playing stream;
\* helper_running: the helper process is alive and its stdout is open;
\* sample_buffer: the numbers of the buffered blocks, oldest first)
MacOSSystemAudio_new == [is_capturing |-> FALSE, permission_denied |-> FALSE,
                         capture_process |-> FALSE, use_blackhole |-> FALSE,
                         blackhole_thread |-> FALSE, stream |-> FALSE,
                         helper_running |-> FALSE, sample_buffer |-> <<>>]

\* what one start_capture call meets: a loopback device found or not, its
\* default input config readable, its sample format one of F32/I16/I32, the
\* stream built and played, audio seen in the probe window; the helper binary
\* found, spawned, and what try_wait says after the grace window
CaptureEnvs == [device_found : BOOLEAN, config_ok : BOOLEAN, format_ok : BOOLEAN,
                build_ok : BOOLEAN, play_ok : BOOLEAN, audio : BOOLEAN,
                helper_exists : BOOLEAN, spawn_ok : BOOLEAN,
                try_wait : {"exited", "running", "error"}]

NoCaptureEnv == [device_found |-> FALSE, config_ok |-> FALSE, format_ok |-> FALSE,
                 build_ok |-> FALSE, play_ok |-> FALSE, audio |-> FALSE,
                 helper_exists |-> FALSE, spawn_ok |-> FALSE, try_wait |-> "exited"]

\* a fresh object, no call made on it
\* (spawned: the call spawned the helper process; stopped: the call found
\* the backend capturing and stopped it; returned: the samples the call
\* returned; produced: blocks delivered so far by the stream or the helper;
\* read: everything read_samples has returned; cleared: blocks thrown away
\* by stop_capture)
NoCaptureCall == [obj |-> MacOSSystemAudio_new, op |-> "new", env |-> NoCaptureEnv,
                  ret |-> "ok", spawned |-> FALSE, stopped |-> FALSE,
                  returned |-> <<>>, produced |-> 0, read |-> <<>>, cleared |-> {}]

\* no producer has delivered anything
NoData == [backend |-> "-", channels |-> 1, frames |-> <<>>, raw |-> <<>>,
           sample_buffer |-> <<>>, read |-> <<>>, op |-> "new", ret |-> "ok",
           returned |-> <<>>]

\* the threads that call update_selected_device
Callers == {"t1", "t2"}

\* no call of update_selected_device has returned
NoReturn == [who |-> "-", branch |-> "-", ret |-> "-", started |-> FALSE,
             stopped |-> FALSE]

\* IS_UPDATING as the static is initialised, no caller inside the function
\* (pc: where each caller is; saw: the is_open and is_recording the
\* duplicate branch read; calls: calls made so far; done: the last return)
NoSwitch == [IS_UPDATING |-> FALSE,
             pc |-> [c \in Callers |-> "idle"],
             saw |-> [c \in Callers |-> [is_open |-> FALSE, is_recording |-> FALSE]],
             calls |-> 0,
             done |-> NoReturn]

NoCall == [op |-> "init", id |-> "-", ret |-> "unit", seg |-> <<>>, raw |-> <<>>,
           opens |-> 0, across_start |-> {}]

\* the variables after a call that left the manager as r.m
Apply(r, op, id) ==
    /\ state' = r.m.state
    /\ mode' = r.m.mode
    /\ is_open' = r.m.is_open
    /\ is_recording' = r.m.is_recording
    /\ recorder' = r.m.recorder
    /\ system_capture' = r.m.system_capture
    /\ dead' = r.m.dead
    /\ last' = [op |-> op, id |-> id, ret |-> r.ret, seg |-> r.seg, raw |-> r.raw,
                opens |-> r.m.opens, across_start |-> r.m.across_start]
    /\ threads.followed => threads.running + r.m.spawned <= MaxThreads
    /\ threads' = IF threads.followed
                  THEN [threads EXCEPT !.running = @ + r.m.spawned]
                  ELSE threads

\* AudioRecordingManager::new, the struct literal
StructLiteral ==
    /\ state = Idle
    /\ mode = IF settings.always_on_microphone THEN "AlwaysOn" ELSE "OnDemand"
    /\ is_open = FALSE
    /\ is_recording = FALSE
    /\ recorder = NoRecorder
    /\ system_capture = NoCapture
    /\ dead = {}

\* the manager under construction, nothing else running
Constructing ==
    /\ platform \in Platforms
    /\ settings \in Settings
    /\ phase = "constructing"
    /\ StructLiteral
    /\ produced = 0
    /\ cancelled = {}
    /\ last = NoCall
    /\ threads = NoThreads
    /\ pad_call = NoPad
    /\ loop = NoLoop
    /\ switch = NoSwitch
    /\ capture = NoCaptureCall

Init ==
    /\ Constructing
    /\ data = NoData

\* AudioRecordingManager::new, "Always-on?  Open immediately."
New ==
    /\ phase = "constructing"
    /\ \E env \in Envs :
        LET r == IF mode = "AlwaysOn"
                 THEN start_microphone_stream(Mgr, {}, env)
                 ELSE Ret(Mgr, "ok") IN
        /\ phase' = IF r.ret = "ok" THEN "ready" ELSE "failed"
        /\ Apply(r, "new", "-")
    /\ UNCHANGED <<aside, platform, settings, produced, cancelled>>

TryStartRecording ==
    /\ phase = "ready"
    /\ \E id \in Ids, env \in Envs :
        Apply(try_start_recording(Mgr, {}, id, env), "try_start_recording", id)
    /\ UNCHANGED <<aside, platform, settings, phase, produced, cancelled>>

StopRecording ==
    /\ phase = "ready"
    /\ \E id \in Ids :
        Apply(stop_recording(Mgr, {}, id), "stop_recording", id)
    /\ UNCHANGED <<aside, platform, settings, phase, produced, cancelled>>

CancelRecording ==
    /\ phase = "ready"
    /\ LET r == cancel_recording(Mgr, {}) IN
        /\ Apply(r, "cancel_recording", "-")
        /\ cancelled' = IF state # Idle /\ r.ret # "hang"
                        THEN cancelled \cup SampleIds(SessionBuffered)
                        ELSE cancelled
    /\ UNCHANGED <<aside, platform, settings, phase, produced>>

StartMicrophoneStream ==
    /\ phase = "ready"
    /\ \E env \in Envs :
        Apply(start_microphone_stream(Mgr, {}, env), "start_microphone_stream", "-")
    /\ UNCHANGED <<aside, platform, settings, phase, produced, cancelled>>

StopMicrophoneStream ==
    /\ phase = "ready"
    /\ Apply(stop_microphone_stream(Mgr, {}), "stop_microphone_stream", "-")
    /\ UNCHANGED <<aside, platform, settings, phase, produced, cancelled>>

\* commands::audio::update_microphone_mode: write the setting, then update_mode
UpdateMicrophoneMode ==
    /\ phase = "ready"
    /\ \E always_on \in BOOLEAN, env \in Envs :
        LET s1 == [settings EXCEPT !.always_on_microphone = always_on]
            new_mode == IF always_on THEN "AlwaysOn" ELSE "OnDemand" IN
        /\ settings' = s1
        /\ Apply(update_mode([Mgr EXCEPT !.settings = s1], {}, new_mode, env),
                 "update_mode", new_mode)
    /\ UNCHANGED <<aside, platform, phase, produced, cancelled>>

\* commands::audio::set_audio_source: write the setting; the device update
\* runs later in a spawned task (UpdateSelectedDevice)
SetAudioSource ==
    /\ phase = "ready"
    /\ \E src \in Sources :
        /\ src # settings.audio_source
        /\ settings' = [settings EXCEPT !.audio_source = src]
        /\ last' = [NoCall EXCEPT !.op = "set_audio_source", !.id = src]
    /\ UNCHANGED <<threads, aside, platform, phase, state, mode, is_open, is_recording, recorder,
                   system_capture, dead, produced, cancelled>>

UpdateSelectedDevice ==
    /\ phase = "ready"
    /\ \E env \in Envs :
        Apply(update_selected_device(Mgr, {}, env), "update_selected_device", "-")
    /\ UNCHANGED <<aside, platform, settings, phase, produced, cancelled>>

GetSystemAudioStatus ==
    /\ phase = "ready"
    /\ Apply(get_system_audio_status(Mgr, {}), "get_system_audio_status", "-")
    /\ UNCHANGED <<aside, platform, settings, phase, produced, cancelled>>

\* the capture callback / helper reader thread appends one block to the
\* buffer of a running system-audio capture
ProduceSystem ==
    /\ phase = "ready"
    /\ produced < MaxProduced
    /\ system_capture.present /\ system_capture.capturing
    /\ produced' = produced + 1
    /\ system_capture' = [system_capture EXCEPT !.buf = Append(@, Block(produced + 1))]
    /\ last' = [NoCall EXCEPT !.op = "produce"]
    /\ UNCHANGED <<threads, aside, platform, settings, phase, state, mode, is_open, is_recording,
                   recorder, dead, cancelled>>

\* the recorder worker appends one block while it is recording
ProduceMicrophone ==
    /\ phase = "ready"
    /\ produced < MaxProduced
    /\ recorder.open /\ recorder.recording
    /\ produced' = produced + 1
    /\ recorder' = [recorder EXCEPT !.buf = Append(@, Block(produced + 1))]
    /\ last' = [NoCall EXCEPT !.op = "produce"]
    /\ UNCHANGED <<threads, aside, platform, settings, phase, state, mode, is_open, is_recording,
                   system_capture, dead, cancelled>>

TypeOK ==
    /\ state \in {Idle} \cup Ids
    /\ mode \in Modes
    /\ is_open \in BOOLEAN
    /\ is_recording \in BOOLEAN
    /\ produced \in 0..MaxProduced


(* ------------------- the padding step of stop_recording ---------------- *)
\* run lengths around the one-second threshold
PadRunLens == {1, WHISPER_SAMPLE_RATE \div 2 - 1, WHISPER_SAMPLE_RATE \div 2,
               WHISPER_SAMPLE_RATE}
PadRuns == {Run(id, n) : id \in {Zero, 1}, n \in PadRunLens}
\* the segments stop_recording may have read from a backend
PadInputs == UNION {[1..k -> PadRuns] : k \in 0..MaxRuns}

InitPad ==
    /\ platform = "macos"
    /\ settings = [always_on_microphone |-> FALSE, audio_source |-> "Microphone"]
    /\ phase = "ready"
    /\ StructLiteral
    /\ produced = 0
    /\ cancelled = {}
    /\ last = NoCall
    /\ loop = NoLoop
    /\ switch = NoSwitch
    /\ capture = NoCaptureCall
    /\ data = NoData
    /\ threads = NoThreads
    /\ \E s \in PadInputs : pad_call = [NoPad EXCEPT !.samples = s]

\* stop_recording, from "let s_len = samples.len()" to the returned Some
PadSegment ==
    /\ ~pad_call.done
    /\ pad_call' = [pad_call EXCEPT !.returned = PadShort(pad_call.samples),
                                    !.done = TRUE]
    /\ UNCHANGED <<threads, data, platform, settings, phase, state, mode, is_open, is_recording,
                   recorder, system_capture, dead, produced, cancelled, last, loop,
                   switch, capture>>

NextPad == PadSegment

SpecPad == InitPad /\ [][NextPad]_vars

(* --------------------- the auto-transcription loop --------------------- *)
\* input samples per resampler frame
FrameIn == (SYSTEM_AUDIO_SAMPLE_RATE * FRAME_MILLIS) \div 1000
\* input samples per output sample
Ratio == SYSTEM_AUDIO_SAMPLE_RATE \div TARGET_SAMPLE_RATE

\* the output samples of whole input frames
Decimated(s) == [i \in 1..Len(s) |-> Run(s[i].id, s[i].n \div Ratio)]

\* FrameResampler::push: emit the output of every complete frame, keep the
\* unconsumed input for the next call
resampler_push(pending, new_samples) ==
    LET all == pending \o new_samples
        whole == (SampleLen(all) \div FrameIn) * FrameIn IN
    [out |-> Decimated(TakeSamples(all, whole)),
     pending |-> DropSamples(all, whole)]

\* a variant of extract that copies the window instead of draining it
extract_copy(buf) ==
    IF SampleLen(buf) >= MIN_SAMPLES
    THEN [took |-> TRUE, seg |-> buf,
          rest |-> DropSamples(buf, SampleLen(buf) - OVERLAP_SAMPLES)]
    ELSE [took |-> FALSE, seg |-> <<>>, rest |-> buf]

\* a variant of extract that takes the overlap length for the threshold
extract_early(buf) ==
    IF SampleLen(buf) >= OVERLAP_SAMPLES
    THEN IF SampleLen(buf) > OVERLAP_SAMPLES
         THEN LET take_count == SampleLen(buf) - OVERLAP_SAMPLES IN
              [took |-> TRUE, seg |-> TakeSamples(buf, take_count),
               rest |-> DropSamples(buf, take_count)]
         ELSE [took |-> TRUE, seg |-> buf, rest |-> <<>>]
    ELSE [took |-> FALSE, seg |-> <<>>, rest |-> buf]

\* "if current_buffer_size >= MIN_SAMPLES": drain all but the overlap
extract(buf) ==
    IF SampleLen(buf) >= MIN_SAMPLES
    THEN IF SampleLen(buf) > OVERLAP_SAMPLES
         THEN LET take_count == SampleLen(buf) - OVERLAP_SAMPLES IN
              [took |-> TRUE, seg |-> TakeSamples(buf, take_count),
               rest |-> DropSamples(buf, take_count)]
         ELSE [took |-> TRUE, seg |-> buf, rest |-> <<>>]
    ELSE [took |-> FALSE, seg |-> <<>>, rest |-> buf]

\* "Check if still in always-on mode", "Check if audio source is still
\* SystemAudio"
StillConfigured(st) == st.always_on_microphone /\ st.audio_source = "SystemAudio"

\* a variant of loop_resampler that makes a new FrameResampler in every
\* iteration
loop_resampler_fresh(lp) == <<>>

\* "let mut resampler = FrameResampler::new(..)" ahead of "loop {": every
\* iteration pushes into the one instance
loop_resampler(lp) == lp.resampler

\* one pass through the body of "loop { ... }" after the sleep
loop_iteration(m, lp, env) ==
    IF ~StillConfigured(m.settings)
    THEN [m |-> m, status |-> "break", loop |-> [lp EXCEPT !.running = FALSE]]
    ELSE IF ~CanLock(m, {}, "is_recording")
    THEN [m |-> m, status |-> "hang", loop |-> lp]
    ELSE LET r == IF m.is_recording THEN Ret(m, "true")
                  ELSE try_start_recording(m, {}, "transcribe", env) IN
    IF r.ret = "hang" THEN [m |-> r.m, status |-> "hang", loop |-> lp]
    \* "Failed to restart recording in always-on mode"
    ELSE IF r.ret # "true"
    THEN [m |-> r.m, status |-> "break", loop |-> [lp EXCEPT !.running = FALSE]]
    ELSE IF ~CanLock(r.m, {}, "system_capture")
    THEN [m |-> r.m, status |-> "hang", loop |-> lp]
    ELSE LET cap == r.m.system_capture
             new_samples == IF cap.present THEN read_samples_result(cap) ELSE <<>>
             m2 == IF cap.present
                   THEN [r.m EXCEPT !.system_capture = read_samples_after(@)]
                   ELSE r.m
             rs == resampler_push(loop_resampler(lp), new_samples)
             window == lp.accumulated_buffer \o rs.out
             x == extract(window) IN
         [m |-> m2, status |-> "next",
          loop |-> [running |-> TRUE,
                    window |-> window,
                    resampler |-> rs.pending,
                    accumulated_buffer |-> x.rest,
                    segments |-> IF x.took THEN Append(lp.segments, x.seg)
                                 ELSE lp.segments,
                    appended |-> lp.appended \o rs.out,
                    \* "if let Some(new_samples) = new_samples"
                    pushed |-> IF new_samples = <<>> THEN lp.pushed
                               ELSE Append(lp.pushed, new_samples)]]

LoopSettings == [always_on_microphone |-> TRUE, audio_source |-> "SystemAudio"]

\* the thread is spawned by start_microphone_stream on macOS right after the
\* auto-start succeeded
LoopSpawned ==
    /\ platform = "macos"
    /\ settings = LoopSettings
    /\ phase = "ready"
    /\ LET m0 == [state |-> Idle, mode |-> "AlwaysOn", is_open |-> FALSE,
                  is_recording |-> FALSE, recorder |-> NoRecorder,
                  system_capture |-> NoCapture, dead |-> {},
                  settings |-> LoopSettings, opens |-> 0, spawned |-> 0,
                  across_start |-> {}]
           r == start_microphone_stream(m0, {}, [open_ok |-> TRUE, start_ok |-> TRUE]) IN
       /\ state = r.m.state
       /\ mode = r.m.mode
       /\ is_open = r.m.is_open
       /\ is_recording = r.m.is_recording
       /\ recorder = r.m.recorder
       /\ system_capture = r.m.system_capture
       /\ dead = r.m.dead
       /\ last = [NoCall EXCEPT !.op = "new", !.ret = r.ret, !.opens = r.m.opens,
                                !.across_start = r.m.across_start]
    /\ produced = 0
    /\ cancelled = {}
    /\ pad_call = NoPad
    /\ threads = [NoThreads EXCEPT !.followed = TRUE, !.running = 1]
    /\ loop = [NoLoop EXCEPT !.running = TRUE]
    /\ switch = NoSwitch
    /\ capture = NoCaptureCall

InitLoop ==
    /\ LoopSpawned
    /\ data = NoData

\* sizes of the deliveries of the capture callback: 1 s, 2 s and half a
\* frame, 3 s of 48 kHz audio
LoopRunLens == {SYSTEM_AUDIO_SAMPLE_RATE,
                2 * SYSTEM_AUDIO_SAMPLE_RATE + FrameIn \div 2,
                3 * SYSTEM_AUDIO_SAMPLE_RATE}

\* the capture callback appends what it received to the shared buffer
LoopCapture ==
    /\ produced < MaxLoopProduced
    /\ system_capture.present /\ system_capture.capturing
    /\ \E n \in LoopRunLens :
        system_capture' = [system_capture EXCEPT !.buf = Append(@, Run(produced + 1, n))]
    /\ produced' = produced + 1
    /\ last' = [NoCall EXCEPT !.op = "produce"]
    /\ UNCHANGED <<threads, data, platform, settings, phase, state, mode, is_open, is_recording,
                   recorder, dead, cancelled, pad_call, loop, switch, capture>>

\* how an iteration changes the count of threads
after_iteration(t, status) ==
    [followed |-> t.followed,
     running |-> IF status = "break" THEN t.running - 1 ELSE t.running,
     blocked |-> IF status = "hang" THEN t.blocked + 1 ELSE t.blocked]

\* the observed thread wakes up and runs one iteration
LoopIteration ==
    /\ loop.running
    /\ threads.running > threads.blocked
    /\ \E env \in Envs :
        LET r == loop_iteration(Mgr, loop, env) IN
        /\ loop' = r.loop
        /\ state' = r.m.state
        /\ is_recording' = r.m.is_recording
        /\ system_capture' = r.m.system_capture
        /\ dead' = r.m.dead
        /\ threads' = after_iteration(threads, r.status)
        /\ last' = [NoCall EXCEPT !.op = "loop", !.ret = r.status]
    /\ UNCHANGED <<data, platform, settings, phase, mode, is_open, recorder,
                   produced, cancelled, pad_call, switch, capture>>

\* one of the spawned threads wakes up and runs one iteration; what it keeps
\* in its locals is followed in SpecLoop only
LoopTick ==
    /\ phase = "ready"
    /\ threads.followed
    /\ threads.running > threads.blocked
    /\ \E env \in Envs :
        LET r == loop_iteration(Mgr, [NoLoop EXCEPT !.running = TRUE], env) IN
        /\ state' = r.m.state
        /\ is_recording' = r.m.is_recording
        /\ system_capture' = r.m.system_capture
        /\ dead' = r.m.dead
        /\ threads' = after_iteration(threads, r.status)
        /\ last' = [NoCall EXCEPT !.op = "loop", !.ret = r.status]
    /\ UNCHANGED <<aside, platform, settings, phase, mode, is_open, recorder,
                   produced, cancelled>>

NextLoop ==
    \/ LoopCapture
    \/ LoopIteration
    \/ CancelRecording
    \/ SetAudioSource

SpecLoop == InitLoop /\ [][NextLoop]_vars

(* ------------------- the manager and the threads it spawns ------------- *)
InitThreads ==
    /\ platform \in Platforms
    /\ settings \in Settings
    /\ phase = "constructing"
    /\ StructLiteral
    /\ produced = 0
    /\ cancelled = {}
    /\ last = NoCall
    /\ threads = [NoThreads EXCEPT !.followed = TRUE]
    /\ pad_call = NoPad
    /\ loop = NoLoop
    /\ switch = NoSwitch
    /\ capture = NoCaptureCall
    /\ data = NoData

NextThreads ==
    \/ New
    \/ TryStartRecording
    \/ StopRecording
    \/ CancelRecording
    \/ StartMicrophoneStream
    \/ StopMicrophoneStream
    \/ UpdateMicrophoneMode
    \/ SetAudioSource
    \/ UpdateSelectedDevice
    \/ LoopTick

SpecThreads == InitThreads /\ [][NextThreads]_vars

\* a spawned thread sleeps TRANSCRIBE_INTERVAL_SECS and then runs its next
\* iteration, for as long as it is not blocked
SpecThreadsFair == SpecThreads /\ WF_vars(LoopTick)

(* --------------- update_selected_device, call by call ------------------ *)
\* Two threads call update_selected_device; each call is followed through
\* its steps, and the manager's other methods run in between.

\* "if IS_UPDATING.swap(true, Acquire)": the value the swap found
already_updating_never(sw) == FALSE
already_updating(sw) == sw.IS_UPDATING

\* the drop of UpdateGuard when the function returns with ret
UpdateGuard_drop_on_ok(sw, ret) == [sw EXCEPT !.IS_UPDATING = (ret = "err")]
UpdateGuard_drop(sw, ret) == [sw EXCEPT !.IS_UPDATING = FALSE]

\* caller c returns ret from the given branch
Return(sw, c, branch, ret, started, stopped) ==
    [sw EXCEPT !.pc[c] = "idle",
               !.saw[c] = NoSwitch.saw[c],
               !.done = [who |-> c, branch |-> branch, ret |-> ret,
                         started |-> started, stopped |-> stopped]]

\* did the call that turned m into n stop a running backend
StoppedBackend(m, n) ==
    \/ m.system_capture.capturing /\ ~n.system_capture.capturing
    \/ m.recorder.open /\ ~n.recorder.open

\* the swap at the top of the function
SwitchEnter(c) ==
    /\ phase = "ready"
    /\ switch.pc[c] = "idle"
    /\ switch.calls < MaxCalls
    /\ switch' = IF already_updating(switch)
                  THEN [switch EXCEPT !.pc[c] = "waiting", !.calls = @ + 1]
                  ELSE [switch EXCEPT !.pc[c] = "guarded", !.calls = @ + 1,
                                      !.IS_UPDATING = TRUE]
    /\ last' = [NoCall EXCEPT !.op = "update_selected_device", !.id = c,
                               !.ret = "enter"]
    /\ UNCHANGED <<manager, dead, threads, pad_call, loop, capture, data, platform,
                   settings, phase, produced, cancelled>>

\* duplicate branch: after the 500 ms sleep read the settings, is_open and
\* is_recording
SwitchRecheck(c) ==
    /\ switch.pc[c] = "waiting"
    /\ IF ~StillConfigured(settings)
       THEN /\ switch' = Return(switch, c, "duplicate", "ok", FALSE, FALSE)
            /\ Apply(Ret(Mgr, "ok"), "update_selected_device", c)
       ELSE IF ~CanLock(Mgr, {}, "is_open") \/ ~CanLock(Mgr, {}, "is_recording")
       THEN /\ switch' = [switch EXCEPT !.pc[c] = "hung"]
            /\ Apply(Hang(Mgr, {}), "update_selected_device", c)
       ELSE /\ switch' = [switch EXCEPT !.pc[c] = "rechecked",
                                        !.saw[c] = [is_open |-> is_open,
                                                    is_recording |-> is_recording]]
            /\ Apply(Ret(Mgr, "recheck"), "update_selected_device", c)
    /\ UNCHANGED <<pad_call, loop, capture, data, platform, settings, phase, produced,
                   cancelled>>

\* duplicate branch: "if is_open { if !is_recording { try_start_recording" and
\* "return Ok(())"
SwitchDuplicateReturn(c) ==
    /\ switch.pc[c] = "rechecked"
    /\ \E env \in Envs :
        LET r == IF switch.saw[c].is_open /\ ~switch.saw[c].is_recording
                 THEN try_start_recording(Mgr, {}, "transcribe", env)
                 ELSE Ret(Mgr, "false") IN
        IF r.ret = "hang"
        THEN /\ switch' = [switch EXCEPT !.pc[c] = "hung"]
             /\ Apply(r, "update_selected_device", c)
        ELSE /\ switch' = Return(switch, c, "duplicate", "ok", r.m.opens > 0,
                                 StoppedBackend(Mgr, r.m))
             /\ Apply(Ret(r.m, "ok"), "update_selected_device", c)
    /\ UNCHANGED <<pad_call, loop, capture, data, platform, settings, phase, produced,
                   cancelled>>

\* "let was_open = *self.is_open.lock().unwrap()"
SwitchWasOpen(c) ==
    /\ switch.pc[c] = "guarded"
    /\ IF ~CanLock(Mgr, {"IS_UPDATING"}, "is_open")
       THEN /\ switch' = [switch EXCEPT !.pc[c] = "hung"]
            /\ Apply(Hang(Mgr, {"IS_UPDATING"}), "update_selected_device", c)
       ELSE IF ~is_open
       THEN /\ switch' = UpdateGuard_drop(
                            Return(switch, c, "guarded", "ok", FALSE, FALSE), "ok")
            /\ Apply(Ret(Mgr, "ok"), "update_selected_device", c)
       ELSE /\ switch' = [switch EXCEPT !.pc[c] = "stopping"]
            /\ Apply(Ret(Mgr, "was_open"), "update_selected_device", c)
    /\ UNCHANGED <<pad_call, loop, capture, data, platform, settings, phase, produced,
                   cancelled>>

\* "self.stop_microphone_stream()"
SwitchStop(c) ==
    /\ switch.pc[c] = "stopping"
    /\ LET r == stop_microphone_stream(Mgr, {"IS_UPDATING"}) IN
       /\ switch' = [switch EXCEPT !.pc[c] = IF r.ret = "hang" THEN "hung"
                                             ELSE "starting"]
       /\ Apply(IF r.ret = "hang" THEN r ELSE Ret(r.m, "stopped"),
                "update_selected_device", c)
    /\ UNCHANGED <<pad_call, loop, capture, data, platform, settings, phase, produced,
                   cancelled>>

\* "self.start_microphone_stream()?" and "Ok(())"
SwitchStart(c) ==
    /\ switch.pc[c] = "starting"
    /\ \E env \in Envs :
        LET q == start_microphone_stream(Mgr, {"IS_UPDATING"}, env) IN
        IF q.ret = "hang"
        THEN /\ switch' = [switch EXCEPT !.pc[c] = "hung"]
             /\ Apply(q, "update_selected_device", c)
        ELSE /\ switch' = UpdateGuard_drop(
                             Return(switch, c, "guarded", q.ret, q.m.opens > 0, TRUE),
                             q.ret)
             /\ Apply(Ret(q.m, q.ret), "update_selected_device", c)
    /\ UNCHANGED <<pad_call, loop, capture, data, platform, settings, phase, produced,
                   cancelled>>

NextSwitch ==
    \/ New
    \/ CancelRecording
    \/ UpdateMicrophoneMode
    \/ SetAudioSource
    \/ \E c \in Callers : SwitchEnter(c)
    \/ \E c \in Callers : SwitchRecheck(c)
    \/ \E c \in Callers : SwitchDuplicateReturn(c)
    \/ \E c \in Callers : SwitchWasOpen(c)
    \/ \E c \in Callers : SwitchStop(c)
    \/ \E c \in Callers : SwitchStart(c)

SpecSwitch == Init /\ [][NextSwitch]_vars

(* ---------------- MacOSSystemAudio: the backend selector --------------- *)
\* a variant of stop_capture that leaves the sample buffer as it is
stop_capture_keep(c) ==
    [c EXCEPT !.blackhole_thread = FALSE, !.stream = FALSE,
              !.capture_process = FALSE, !.helper_running = FALSE,
              !.is_capturing = FALSE, !.use_blackhole = FALSE]

\* MacOSSystemAudio::stop_capture
stop_capture(c) ==
    IF ~c.is_capturing THEN c
    ELSE IF c.use_blackhole
    THEN [c EXCEPT !.blackhole_thread = FALSE, !.stream = FALSE,
                   !.sample_buffer = <<>>,
                   !.is_capturing = FALSE, !.use_blackhole = FALSE]
    ELSE [c EXCEPT !.capture_process = FALSE, !.helper_running = FALSE,
                   !.sample_buffer = <<>>,
                   !.is_capturing = FALSE, !.use_blackhole = FALSE]

\* start_capture, "if self.is_capturing { ... self.stop_capture() ... }"
StopsFirst(c) == c.is_capturing

\* MacOSSystemAudio::read_samples
read_samples(c) ==
    IF c.sample_buffer = <<>>
    THEN [obj |-> c, ret |-> "none", samples |-> <<>>]
    ELSE [obj |-> [c EXCEPT !.sample_buffer = <<>>], ret |-> "some",
          samples |-> c.sample_buffer]

\* the worker thread of start_blackhole_capture ends up holding a playing
\* stream ("return" on an unsupported format, on a build or a play error)
StreamPlays(env) == env.format_ok /\ env.build_ok /\ env.play_ok

\* MacOSSystemAudio::start_blackhole_capture: Err, Ok(true) or Ok(false)
start_blackhole_capture(c, env) ==
    IF ~env.config_ok THEN [obj |-> c, ret |-> "err"]
    ELSE [obj |-> [c EXCEPT !.blackhole_thread = TRUE, !.use_blackhole = TRUE,
                            !.is_capturing = TRUE, !.stream = StreamPlays(env)],
          ret |-> IF StreamPlays(env) /\ env.audio THEN "true" ELSE "false"]

\* start_capture, "Ok(true) => return Ok(())" and "Ok(false) => ... return
\* Ok(())": variant that keeps the loopback device only when audio was seen
LoopbackCommitsOnAudio(ret) == ret = "true"

\* start_capture, "Ok(true) => return Ok(())" and "Ok(false) => ... return Ok(())"
LoopbackCommits(ret) == ret \in {"true", "false"}

\* start_capture, "Ok(Some(status))" of try_wait: variant that never sees an exit
HelperExitedNever(w) == FALSE

\* start_capture, "Ok(Some(status))" of try_wait after the 2000 ms sleep
HelperExited(w) == w = "exited"

\* start_capture, "Strategy 2: Fallback to ScreenCaptureKit"
start_helper(c, env) ==
    IF ~env.helper_exists \/ ~env.spawn_ok
    THEN [obj |-> c, ret |-> "err", spawned |-> FALSE]
    ELSE IF HelperExited(env.try_wait)
    THEN [obj |-> [c EXCEPT !.permission_denied = TRUE, !.is_capturing = FALSE,
                            !.capture_process = FALSE],
          ret |-> "permission_denied", spawned |-> TRUE]
    ELSE [obj |-> [c EXCEPT !.capture_process = TRUE, !.is_capturing = TRUE,
                            !.helper_running = TRUE,
                            !.permission_denied = FALSE],
          ret |-> "ok", spawned |-> TRUE]

\* MacOSSystemAudio::start_capture
start_capture(c, env) ==
    LET c0 == IF StopsFirst(c) THEN stop_capture(c) ELSE c
        b == IF env.device_found THEN start_blackhole_capture(c0, env)
             ELSE [obj |-> c0, ret |-> "none"] IN
    IF LoopbackCommits(b.ret)
    THEN [obj |-> b.obj, ret |-> "ok", spawned |-> FALSE]
    ELSE start_helper(b.obj, env)

InitCapture ==
    /\ Init
    /\ platform = "macos"
    /\ settings = LoopSettings

\* the blocks of buffer a that are no longer in buffer b
Dropped(a, b) == {a[i] : i \in 1..Len(a)} \ {b[i] : i \in 1..Len(b)}

\* one call of start_capture on the object, the environment being one of envs
StartCaptureIn(envs) ==
    /\ \E env \in envs :
        LET r == start_capture(capture.obj, env) IN
        capture' = [capture EXCEPT
                      !.obj = r.obj, !.op = "start_capture", !.env = env,
                      !.ret = r.ret, !.spawned = r.spawned,
                      !.stopped = StopsFirst(capture.obj), !.returned = <<>>,
                      !.cleared = @ \cup Dropped(capture.obj.sample_buffer,
                                                 r.obj.sample_buffer)]
    /\ UNCHANGED <<manager, dead, threads, pad_call, loop, switch, data, platform,
                   settings, phase, produced, cancelled, last>>

\* one call of start_capture on the object
StartCapture == StartCaptureIn(CaptureEnvs)

\* one call of stop_capture on the object
StopCapture ==
    /\ capture' = [capture EXCEPT
                     !.obj = stop_capture(@), !.op = "stop_capture",
                     !.env = NoCaptureEnv, !.ret = "ok", !.spawned = FALSE,
                     !.stopped = capture.obj.is_capturing, !.returned = <<>>,
                     !.cleared = @ \cup {capture.obj.sample_buffer[i] :
                                           i \in 1..Len(capture.obj.sample_buffer)}]
    /\ UNCHANGED <<manager, dead, threads, pad_call, loop, switch, data, platform,
                   settings, phase, produced, cancelled, last>>

\* one call of read_samples on the object
ReadSamples ==
    /\ capture.op # "new"
    /\ LET r == read_samples(capture.obj) IN
       capture' = [capture EXCEPT
                     !.obj = r.obj, !.op = "read_samples", !.env = NoCaptureEnv,
                     !.ret = r.ret, !.spawned = FALSE, !.stopped = FALSE,
                     !.returned = r.samples, !.read = @ \o r.samples]
    /\ UNCHANGED <<manager, dead, threads, pad_call, loop, switch, data, platform,
                   settings, phase, produced, cancelled, last>>

\* the input callback of the loopback stream, or the stdout reader thread of
\* the helper, appends one block to the buffer
CaptureCallback ==
    /\ capture.produced < MaxCaptureProduced
    /\ \/ capture.obj.use_blackhole /\ capture.obj.stream
       \/ capture.obj.capture_process /\ capture.obj.helper_running
    /\ capture' = [capture EXCEPT
                     !.obj.sample_buffer = Append(@, capture.produced + 1),
                     !.produced = @ + 1, !.op = "callback",
                     !.env = NoCaptureEnv, !.ret = "ok", !.spawned = FALSE,
                     !.stopped = FALSE, !.returned = <<>>]
    /\ UNCHANGED <<manager, dead, threads, pad_call, loop, switch, data, platform,
                   settings, phase, produced, cancelled, last>>

\* the helper process exits or closes its stdout: the reader thread leaves
\* its loop ("Ok(_) => break, // EOF")
HelperExits ==
    /\ capture.obj.capture_process
    /\ capture.obj.helper_running
    /\ capture' = [capture EXCEPT
                     !.obj.helper_running = FALSE, !.op = "helper_exit",
                     !.env = NoCaptureEnv, !.ret = "ok", !.spawned = FALSE,
                     !.stopped = FALSE, !.returned = <<>>]
    /\ UNCHANGED <<manager, dead, threads, pad_call, loop, switch, data, platform,
                   settings, phase, produced, cancelled, last>>

NextCapture ==
    \/ StartCapture
    \/ StopCapture

SpecCapture == InitCapture /\ [][NextCapture]_vars

(* ------------- MacOSSystemAudio: producers, reads and stops ------------ *)
\* one environment for each way a start_capture call can run: the outcomes
\* the call never looks at are fixed
DataEnvs ==
    {e \in CaptureEnvs :
        /\ e.device_found \/ ~e.config_ok
        /\ e.config_ok \/ ~(e.format_ok \/ e.build_ok \/ e.play_ok \/ e.audio)
        /\ e.format_ok = e.build_ok /\ e.build_ok = e.play_ok
        /\ e.play_ok \/ ~e.audio
        /\ e.config_ok => ~e.helper_exists
        /\ e.helper_exists = e.spawn_ok
        /\ e.spawn_ok \/ e.try_wait = "exited"}

\* one call of start_capture on the object
StartCaptureData == StartCaptureIn(DataEnvs)

NextBuffer ==
    \/ StartCaptureData
    \/ StopCapture
    \/ ReadSamples
    \/ CaptureCallback
    \/ HelperExits

SpecBuffer == InitCapture /\ [][NextBuffer]_vars

(* ----------------- producer callbacks and read_samples ---------------- *)
\* the capture backends
Backends == {"MacOSSystemAudio", "WindowsSystemAudio", "ScreenCaptureKitAudio"}

\* values of the samples a device delivers (the mean of two of them is a
\* whole number)
SampleValues == {0, 2}

\* the frames of a device with ch channels: one value per channel
FramesOf(ch) == [1..ch -> SampleValues]

\* sequences of 1..n elements of S
SeqsUpTo(S, n) == UNION {[1..k -> S] : k \in 1..n}

\* Iterator::sum over the values of a frame
RECURSIVE SumOf(_)
SumOf(f) == IF f = <<>> THEN 0 ELSE Head(f) + SumOf(Tail(f))

\* the interleaved data slice cpal hands to an input callback
Interleaved(frames) == Flatten(frames)

\* the channel-by-channel (planar) buffers of an audio buffer list
Planar(frames, ch) == [c \in 1..ch |-> [i \in 1..Len(frames) |-> frames[i][c]]]

\* data.chunks_exact(channels)
chunks_exact(d, ch) ==
    [i \in 1..(Len(d) \div ch) |-> SubSeq(d, (i - 1) * ch + 1, i * ch)]

\* the input callback of build_blackhole_stream_in_thread and of
\* build_loopback_stream: what it appends to the buffer
stream_cb(d, ch) ==
    IF ch = 1 THEN d
    ELSE LET fr == chunks_exact(d, ch) IN
         [i \in 1..Len(fr) |-> SumOf(fr[i]) \div ch]

\* AudioStreamOutput::did_output_sample_buffer: what it appends to the
\* buffer, given the buffers of the audio buffer list (the list is walked by
\* two match blocks, one after the other)
did_output_sample_buffer(buffers) == Flatten(buffers) \o Flatten(buffers)

\* read_samples of the three backends
drain(buf) ==
    IF buf = <<>> THEN [ret |-> "none", samples |-> <<>>, rest |-> <<>>]
    ELSE [ret |-> "some", samples |-> buf, rest |-> <<>>]

\* a backend after its start: ScreenCaptureKitAudio configures 2 channels,
\* the loopback devices have 1 or 2
InitCallback ==
    /\ Constructing
    /\ platform = "macos"
    /\ settings = LoopSettings
    /\ \E b \in Backends, ch \in {1, 2} :
         /\ b = "ScreenCaptureKitAudio" => ch = 2
         /\ data = [NoData EXCEPT !.backend = b, !.channels = ch]

\* the capture source delivers frames; the callback appends to the buffer
ProducerCallback ==
    /\ \E frames \in SeqsUpTo(FramesOf(data.channels), MaxFrames),
          layout \in {"interleaved", "planar"} :
         /\ Len(data.frames) + Len(frames) <= MaxSourceFrames
         /\ data.backend # "ScreenCaptureKitAudio" => layout = "interleaved"
         /\ LET buffers == IF layout = "planar"
                           THEN Planar(frames, data.channels)
                           ELSE <<Interleaved(frames)>>
                added == IF data.backend = "ScreenCaptureKitAudio"
                         THEN did_output_sample_buffer(buffers)
                         ELSE stream_cb(Interleaved(frames), data.channels) IN
            data' = [data EXCEPT !.frames = @ \o frames,
                                 !.raw = @ \o Flatten(buffers),
                                 !.sample_buffer = @ \o added,
                                 !.op = "callback", !.ret = "ok",
                                 !.returned = <<>>]
    /\ UNCHANGED <<manager, dead, threads, pad_call, loop, switch, capture,
                   platform, settings, phase, produced, cancelled, last>>

\* one call of read_samples
DataRead ==
    /\ LET r == drain(data.sample_buffer) IN
       data' = [data EXCEPT !.sample_buffer = r.rest, !.op = "read_samples",
                            !.ret = r.ret, !.returned = r.samples,
                            !.read = @ \o r.samples]
    /\ UNCHANGED <<manager, dead, threads, pad_call, loop, switch, capture,
                   platform, settings, phase, produced, cancelled, last>>

NextCallback ==
    \/ ProducerCallback
    \/ DataRead

SpecCallback == InitCallback /\ [][NextCallback]_vars

(* -------------------- the helper's stdout reader ---------------------- *)
\* values of the bytes the helper writes
ByteValues == {1, 2}

\* f32::from_le_bytes, as the 32-bit pattern of the value
from_le_bytes(b) == b[1] + 256 * b[2] + 65536 * b[3] + 16777216 * b[4]

\* the floats the reader thread makes of the n bytes of one read:
\* float_count = n / 4, float i from bytes[4i .. 4i + 4]
floats_of(bytes) ==
    [i \in 1..(Len(bytes) \div 4) |->
        from_le_bytes(SubSeq(bytes, (i - 1) * 4 + 1, i * 4))]

\* the helper backend after a successful start_capture
InitReader ==
    /\ InitCapture
    /\ data = NoData

\* one turn of the reader thread's loop: reader.read(&mut bytes) returns
\* Ok(n) with n > 0, the floats are appended to the buffer
StdoutRead ==
    /\ \E bytes \in SeqsUpTo(ByteValues, MaxRead) :
         /\ Len(data.raw) + Len(bytes) <= MaxBytes
         /\ data' = [data EXCEPT !.raw = @ \o bytes,
                                 !.sample_buffer = @ \o floats_of(bytes),
                                 !.op = "stdout_read", !.ret = "ok",
                                 !.returned = <<>>]
    /\ UNCHANGED <<manager, dead, threads, pad_call, loop, switch, capture,
                   platform, settings, phase, produced, cancelled, last>>

NextReader ==
    \/ StdoutRead
    \/ DataRead

SpecReader == InitReader /\ [][NextReader]_vars

(* ------------------- the loop's wait for the model -------------------- *)
\* the loop has no segment in hand
\* (loaded: what TranscriptionManager::is_model_loaded would return now;
\* polls: calls of is_model_loaded for the segment in hand; reported: what
\* the last of them returned; slept: sleeps of 500 ms for the segment in
\* hand; segments, transcribed, skipped: segments extracted, handed to
\* transcribe, dropped by "continue")
NoWait == [pc |-> "extract", loaded |-> FALSE, wait_count |-> 0, polls |-> 0,
           reported |-> FALSE, slept |-> 0, segments |-> 0, transcribed |-> 0,
           skipped |-> 0]

\* "while !tm.is_model_loaded() && wait_count < MAX_WAIT"
while_condition(loaded, wait_count) == ~loaded /\ wait_count < MAX_WAIT

\* a variant of the check after the wait that lets every segment through
model_missing_never(loaded) == FALSE

\* "if !tm.is_model_loaded()" after the wait
model_missing(loaded) == ~loaded

InitWait ==
    /\ LoopSpawned
    /\ data = NoWait

\* the rest of the module's state stays as it is
WaitFrame ==
    UNCHANGED <<manager, dead, threads, pad_call, loop, switch, capture,
                platform, settings, phase, produced, cancelled, last>>

\* a segment was extracted: tm.initiate_model_load(), wait_count = 0
WaitBegin ==
    /\ data.pc = "extract"
    /\ data.segments < MaxSegments
    /\ data' = [data EXCEPT !.pc = "while", !.wait_count = 0, !.polls = 0,
                            !.slept = 0, !.segments = @ + 1]
    /\ WaitFrame

\* the condition of the while loop is evaluated: one call of
\* is_model_loaded
WaitWhile ==
    /\ data.pc = "while"
    /\ data' = [data EXCEPT !.polls = @ + 1, !.reported = data.loaded,
                            !.pc = IF while_condition(data.loaded, data.wait_count)
                                   THEN "sleep" ELSE "if"]
    /\ WaitFrame

\* "std::thread::sleep(Duration::from_millis(500)); wait_count += 1"
WaitSleep ==
    /\ data.pc = "sleep"
    /\ data' = [data EXCEPT !.pc = "while", !.wait_count = @ + 1,
                            !.slept = @ + 1]
    /\ WaitFrame

\* the check after the wait: one more call of is_model_loaded; "continue"
\* when the model is missing
WaitIf ==
    /\ data.pc = "if"
    /\ data' = [data EXCEPT !.polls = @ + 1, !.reported = data.loaded,
                            !.pc = IF model_missing(data.loaded)
                                   THEN "extract" ELSE "transcribe",
                            !.skipped = IF model_missing(data.loaded)
                                        THEN @ + 1 ELSE @]
    /\ WaitFrame

\* "match tm.transcribe(samples_to_transcribe)", then the next iteration
WaitTranscribe ==
    /\ data.pc = "transcribe"
    /\ data' = [data EXCEPT !.pc = "extract", !.transcribed = @ + 1]
    /\ WaitFrame

\* the load started by initiate_model_load completes
ModelLoaded ==
    /\ ~data.loaded
    /\ data.segments > 0
    /\ data' = [data EXCEPT !.loaded = TRUE]
    /\ WaitFrame

NextWait ==
    \/ WaitBegin
    \/ WaitWhile
    \/ WaitSleep
    \/ WaitIf
    \/ WaitTranscribe
    \/ ModelLoaded

SpecWait == InitWait /\ [][NextWait]_vars

(* ------------------------ the smoothed detector ----------------------- *)
\* the last n elements of s
LastOf(s, n) == IF Len(s) <= n THEN s ELSE SubSeq(s, Len(s) - n + 1, Len(s))

\* a detector with attack threshold N, release threshold M and a pre-roll
\* of P frames, before its first frame
\* (frames are numbered in the order they are fed; fed: how the base
\* detector classified them; ring: the buffered pre-roll; pending: the
\* speech frames counted towards the attack; out: what the last push
\* emitted; emitted: everything emitted so far)
SmoothedVad_new(N, M, P) ==
    [attack |-> N, release |-> M, preroll |-> P, in_speech |-> FALSE,
     attack_count |-> 0, release_count |-> 0, ring |-> <<>>, pending |-> <<>>,
     fed |-> <<>>, out |-> <<>>, emitted |-> <<>>]

\* the smoothed detector is fed one frame that the base detector classified
\* as speech or not
push_frame(d, speech) ==
    LET f == Len(d.fed) + 1
        r == IF ~d.in_speech
             THEN IF speech
                  THEN IF d.attack_count + 1 >= d.attack
                       THEN [d EXCEPT !.in_speech = TRUE, !.attack_count = 0,
                                      !.release_count = 0, !.ring = <<>>,
                                      !.pending = <<>>,
                                      !.out = d.ring \o d.pending \o <<f>>]
                       ELSE [d EXCEPT !.attack_count = @ + 1,
                                      !.pending = Append(@, f), !.out = <<>>]
                  ELSE [d EXCEPT !.attack_count = 0, !.pending = <<>>,
                                 !.ring = LastOf(d.ring \o d.pending \o <<f>>,
                                                 d.preroll),
                                 !.out = <<>>]
             ELSE IF speech
                  THEN [d EXCEPT !.release_count = 0, !.out = <<f>>]
                  ELSE IF d.release_count + 1 >= d.release
                       THEN [d EXCEPT !.in_speech = FALSE, !.release_count = 0,
                                      !.out = <<f>>]
                       ELSE [d EXCEPT !.release_count = @ + 1, !.out = <<f>> ] IN
    [r EXCEPT !.fed = Append(d.fed, speech), !.emitted = @ \o r.out]

\* a variant of recorder_vad that gates on the base detector alone
recorder_vad_base(d, speech) ==
    [d EXCEPT !.in_speech = speech, !.fed = Append(d.fed, speech),
              !.out = IF speech THEN <<Len(d.fed) + 1>> ELSE <<>>,
              !.emitted = @ \o (IF speech THEN <<Len(d.fed) + 1>> ELSE <<>>)]

\* create_audio_recorder: the recorder's detector is the base detector
\* wrapped in a SmoothedVad
recorder_vad(d, speech) == push_frame(d, speech)

\* the thresholds followed
AttackFrames == {2, 3}
ReleaseFrames == {1, 2}
PrerollFrames == {1, 2}

InitVad ==
    /\ Constructing
    /\ platform = "macos"
    /\ settings = LoopSettings
    /\ \E N \in AttackFrames, M \in ReleaseFrames, P \in PrerollFrames :
         /\ P <= N
         /\ data = SmoothedVad_new(N, M, P)

\* the recorder feeds the next frame to its detector
VadPush ==
    /\ Len(data.fed) < MaxVadFrames
    /\ \E speech \in BOOLEAN : data' = recorder_vad(data, speech)
    /\ UNCHANGED <<manager, dead, threads, pad_call, loop, switch, capture,
                   platform, settings, phase, produced, cancelled, last>>

NextVad == VadPush

SpecVad == InitVad /\ [][NextVad]_vars

(* ------------------- sessions on a running capture ------------------- *)
\* the manager m at the start of a call
AtCall(m) == [m EXCEPT !.opens = 0, !.spawned = 0, !.across_start = {}]

\* the manager next to the count of blocks produced so far
\* (from: the count of blocks produced when the try_start_recording of the
\* current session returned true; on_system: that session was started on
\* the system-audio source; stop: a stop_recording call followed statement
\* by statement, the binding id it was given and the samples it took)
SessionOf(m) ==
    [m |-> AtCall(m), produced |-> 0, from |-> 0,
     stop |-> [pc |-> "-", id |-> "-", raw |-> <<>>],
     on_system |-> m.state # Idle /\ m.settings.audio_source = "SystemAudio",
     op |-> "new", id |-> "-", ret |-> "ok", seg |-> <<>>]

\* the record after a call that returned r
AfterCall(d, r, op, id) ==
    LET started == d.m.state = Idle /\ r.m.state # Idle IN
    [m |-> AtCall(r.m), produced |-> d.produced, stop |-> d.stop,
     from |-> IF started THEN d.produced ELSE d.from,
     on_system |-> IF started THEN r.m.settings.audio_source = "SystemAudio"
                   ELSE d.on_system,
     op |-> op, id |-> id, ret |-> r.ret, seg |-> r.seg]

\* AudioRecordingManager::new has returned Ok
InitSession ==
    /\ Constructing
    /\ \E env \in Envs :
         LET r == IF mode = "AlwaysOn"
                  THEN start_microphone_stream(Mgr, {}, env)
                  ELSE Ret(Mgr, "ok") IN
         /\ r.ret = "ok"
         /\ data = SessionOf(r.m)

SessionFrame ==
    UNCHANGED <<manager, dead, threads, pad_call, loop, switch, capture,
                platform, settings, phase, produced, cancelled, last>>

SessionTryStart ==
    /\ \E id \in Ids, env \in Envs :
         data' = AfterCall(data, try_start_recording(data.m, {}, id, env),
                           "try_start_recording", id)
    /\ SessionFrame

SessionStop ==
    /\ \E id \in Ids :
         data' = AfterCall(data, stop_recording(data.m, {}, id),
                           "stop_recording", id)
    /\ SessionFrame

SessionCancel ==
    /\ data' = AfterCall(data, cancel_recording(data.m, {}),
                         "cancel_recording", "-")
    /\ SessionFrame

SessionStartStream ==
    /\ \E env \in Envs :
         data' = AfterCall(data, start_microphone_stream(data.m, {}, env),
                           "start_microphone_stream", "-")
    /\ SessionFrame

SessionStopStream ==
    /\ data' = AfterCall(data, stop_microphone_stream(data.m, {}),
                         "stop_microphone_stream", "-")
    /\ SessionFrame

\* commands::audio::set_audio_source followed by its update_selected_device
SessionSetAudioSource ==
    /\ \E src \in Sources, env \in Envs :
         /\ src # data.m.settings.audio_source
         /\ data' = AfterCall(data,
                        update_selected_device(
                            [data.m EXCEPT !.settings.audio_source = src], {}, env),
                        "update_selected_device", src)
    /\ SessionFrame

\* the capture callback / helper reader thread appends one block
SessionProduce ==
    /\ data.produced < MaxProduced
    /\ data.m.system_capture.present /\ data.m.system_capture.capturing
    /\ data' = [data EXCEPT !.produced = @ + 1,
                            !.m.system_capture.buf = Append(@, Block(data.produced + 1)),
                            !.op = "produce", !.id = "-", !.ret = "ok",
                            !.seg = <<>>]
    /\ SessionFrame

NextSession ==
    \/ SessionTryStart
    \/ SessionStop
    \/ SessionCancel
    \/ SessionStartStream
    \/ SessionStopStream
    \/ SessionSetAudioSource
    \/ SessionProduce

SpecSession == InitSession /\ [][NextSession]_vars

(* ---------------- the manager's locks, acquisition by acquisition ----- *)
\* two threads calling into the manager
LockThreads == {"t1", "t2"}

Acq(l) == [k |-> "lock", l |-> l]
Rel(l) == [k |-> "drop", l |-> l]

\* the lock() calls and guard drops of the manager's methods, in program
\* order, on macOS with the system-audio source, mute_while_recording on and
\* the always-on setting off (try_start_recording and stop_recording in
\* on-demand mode, the stream closed before the start and open before the
\* stop)
LockPrograms ==
    [apply_mute |->
        <<Acq("did_mute"), Acq("is_open"), Rel("is_open"), Rel("did_mute")>>,
     remove_mute |->
        <<Acq("did_mute"), Rel("did_mute")>>,
     start_microphone_stream |->
        <<Acq("is_open"), Acq("did_mute"), Acq("system_capture"),
          Rel("system_capture"), Rel("did_mute"), Rel("is_open")>>,
     stop_microphone_stream |->
        <<Acq("is_open"), Acq("did_mute"), Acq("system_capture"),
          Rel("system_capture"), Acq("recorder"), Rel("recorder"),
          Acq("state"), Rel("state"), Rel("did_mute"), Rel("is_open")>>,
     try_start_recording |->
        <<Acq("state"), Acq("mode"), Rel("mode"),
          Acq("is_open"), Acq("did_mute"), Acq("system_capture"),
          Rel("system_capture"), Rel("did_mute"), Rel("is_open"),
          Acq("system_capture"), Acq("is_recording"), Rel("is_recording"),
          Rel("system_capture"), Rel("state")>>,
     stop_recording |->
        <<Acq("state"), Rel("state"), Acq("system_capture"),
          Rel("system_capture"), Acq("is_recording"), Rel("is_recording"),
          Acq("mode"), Rel("mode"),
          Acq("is_open"), Acq("did_mute"), Acq("system_capture"),
          Rel("system_capture"), Acq("recorder"), Rel("recorder"),
          Acq("state"), Rel("state"), Rel("did_mute"), Rel("is_open")>>]

\* the instruction thread t of d is at; Rel("-") when its call has returned
AtLock(d, t) ==
    IF d.pc[t] <= Len(LockPrograms[d.op[t]])
    THEN LockPrograms[d.op[t]][d.pc[t]] ELSE Rel("-")

\* each thread enters one of the methods; no lock is held
InitLocks ==
    /\ Constructing
    /\ platform = "macos"
    /\ settings = [always_on_microphone |-> FALSE, audio_source |-> "SystemAudio"]
    /\ \E ops \in [LockThreads -> DOMAIN LockPrograms] :
         data = [op |-> ops, pc |-> [t \in LockThreads |-> 1], owner |-> <<>>]

\* thread t runs to its next lock() or drop: Mutex::lock blocks while the
\* lock has an owner
LockStep(t) ==
    /\ LET i == AtLock(data, t)
           held == {data.owner[n].l : n \in 1..Len(data.owner)} IN
       /\ i.l # "-"
       /\ i.k = "lock" => i.l \notin held
       /\ data' = [data EXCEPT
                     !.pc[t] = @ + 1,
                     !.owner = IF i.k = "lock"
                               THEN Append(@, [l |-> i.l, t |-> t])
                               ELSE SelectSeq(@, LAMBDA o : o.l # i.l)]
    /\ UNCHANGED <<manager, dead, threads, pad_call, loop, switch, capture,
                   platform, settings, phase, produced, cancelled, last>>

NextLocks == \E t \in LockThreads : LockStep(t)

SpecLocks == InitLocks /\ [][NextLocks]_vars

(* ------------- stop_recording next to try_start_recording ------------- *)
\* stop_recording(id) up to "drop(state)": the state becomes Idle
StopBegin ==
    /\ data.stop.pc = "-"
    /\ \E id \in Ids :
         /\ CanLock(data.m, {}, "state")
         /\ StopMatches(data.m.state, id)
         /\ data' = [data EXCEPT !.m.state = Idle,
                                 !.stop = [pc |-> "samples", id |-> id, raw |-> <<>>],
                                 !.op = "stop_recording", !.id = id,
                                 !.ret = "-", !.seg = <<>>]
    /\ SessionFrame

\* stop_recording, "let samples = ...": the samples are read
StopSamples ==
    /\ data.stop.pc = "samples"
    /\ LET t == take_samples(data.m, {}) IN
       /\ t.ret # "hang"
       /\ data' = [data EXCEPT !.m = t.m, !.stop.pc = "finish",
                               !.stop.raw = t.raw, !.op = "stop_recording",
                               !.id = data.stop.id, !.ret = "-", !.seg = <<>>]
    /\ SessionFrame

\* stop_recording from "*self.is_recording.lock().unwrap() = false" to its
\* return
StopReturn ==
    /\ data.stop.pc = "finish"
    /\ LET f == finish_session(data.m, {}) IN
       /\ f.ret # "hang"
       /\ data' = [data EXCEPT !.m = AtCall(f.m), !.stop.pc = "-",
                               !.op = "stop_recording", !.id = data.stop.id,
                               !.ret = "some", !.seg = PadShort(data.stop.raw)]
    /\ SessionFrame

NextStop ==
    \/ SessionTryStart
    \/ SessionProduce
    \/ StopBegin
    \/ StopSamples
    \/ StopReturn

SpecStop == InitSession /\ [][NextStop]_vars

(* --------------- set_audio_source, request by request ----------------- *)
\* the manager after new() next to the requests (IS_UPDATING: the static of
\* update_selected_device; pc: where the task spawned by each request is;
\* requests: requests made so far; failed: some call returned an error or
\* hangs)
InitRequest ==
    /\ Constructing
    /\ \E env \in Envs :
         LET r == IF mode = "AlwaysOn"
                  THEN start_microphone_stream(Mgr, {}, env)
                  ELSE Ret(Mgr, "ok") IN
         /\ r.ret = "ok"
         /\ data = [m |-> AtCall(r.m), IS_UPDATING |-> FALSE,
                    pc |-> [c \in Callers |-> "idle"],
                    requests |-> 0, failed |-> FALSE]

\* set_audio_source up to the spawn: the setting is written
RequestWrite(c) ==
    /\ data.pc[c] = "idle"
    /\ data.requests < MaxRequests
    /\ \E src \in Sources :
         data' = [data EXCEPT !.m.settings.audio_source = src,
                              !.pc[c] = "spawned", !.requests = @ + 1]
    /\ SessionFrame

\* the spawned task calls update_selected_device: the swap on IS_UPDATING
RequestEnter(c) ==
    /\ data.pc[c] = "spawned"
    /\ data' = [data EXCEPT !.IS_UPDATING = TRUE,
                            !.pc[c] = IF data.IS_UPDATING THEN "waiting"
                                      ELSE "guarded"]
    /\ SessionFrame

\* the duplicate branch, to its "return Ok(())"
RequestDuplicate(c) ==
    /\ data.pc[c] = "waiting"
    /\ \E env \in Envs :
         LET r == update_duplicate(data.m, {}, env) IN
         data' = [data EXCEPT !.m = AtCall(r.m),
                              !.pc[c] = IF r.ret = "hang" THEN "hung" ELSE "idle",
                              !.failed = @ \/ r.ret # "ok"]
    /\ SessionFrame

\* the guarded branch up to the end of "self.start_microphone_stream()?"
RequestRestart(c) ==
    /\ data.pc[c] = "guarded"
    /\ \E env \in Envs :
         LET r == update_selected_device(data.m, {}, env) IN
         data' = [data EXCEPT !.m = AtCall(r.m),
                              !.pc[c] = IF r.ret = "hang" THEN "hung"
                                        ELSE "restarted",
                              !.failed = @ \/ r.ret # "ok"]
    /\ SessionFrame

\* the guarded branch returns: UpdateGuard is dropped
RequestGuardDrop(c) ==
    /\ data.pc[c] = "restarted"
    /\ data' = [data EXCEPT !.IS_UPDATING = FALSE, !.pc[c] = "idle"]
    /\ SessionFrame

NextRequest ==
    \/ \E c \in Callers : RequestWrite(c)
    \/ \E c \in Callers : RequestEnter(c)
    \/ \E c \in Callers : RequestDuplicate(c)
    \/ \E c \in Callers : RequestRestart(c)
    \/ \E c \in Callers : RequestGuardDrop(c)

SpecRequest == InitRequest /\ [][NextRequest]_vars

(* -------------------------- the whole manager ------------------------- *)
Next ==
    \/ New
    \/ TryStartRecording
    \/ StopRecording
    \/ CancelRecording
    \/ StartMicrophoneStream
    \/ StopMicrophoneStream
    \/ UpdateMicrophoneMode
    \/ SetAudioSource
    \/ UpdateSelectedDevice
    \/ GetSystemAudioStatus
    \/ ProduceSystem
    \/ ProduceMicrophone

Spec == Init /\ [][Next]_vars

\* the manager driven only by the session calls, the mode update and the
\* device update
NextOnDemand ==
    \/ New
    \/ TryStartRecording
    \/ StopRecording
    \/ CancelRecording
    \/ UpdateMicrophoneMode
    \/ SetAudioSource
    \/ UpdateSelectedDevice
    \/ ProduceSystem
    \/ ProduceMicrophone

SpecOnDemand == Init /\ [][NextOnDemand]_vars


(* ------------------------------- claims -------------------------------- *)

\* C1: stop_recording(id) called in Idle, or in Recording{other} with
\* other # id, returns None and leaves the recording state, is_recording,
\* is_open, the backend handles and their buffered samples as they were.
C1_StaleStopChangesNothing ==
    [][(last'.op = "stop_recording" /\ state # last'.id /\ last'.ret # "hang")
        => (last'.ret = "none" /\ UNCHANGED manager)]_vars

C1_Witness ==
    /\ last.op = "stop_recording" /\ last.ret = "none"
    /\ state \in Ids /\ state # last.id
    /\ system_capture.buf # <<>>

\* C2: the state is Idle at construction, and a try_start_recording(id)
\* called in Recording{x} returns false and leaves the state Recording{x},
\* also when id = x.
C2_StartOnlyFromIdle ==
    /\ state = Idle
    /\ [][(last'.op = "try_start_recording" /\ state \in Ids /\ last'.ret # "hang")
           => (last'.ret = "false" /\ state' = state)]_vars

C2_Witness ==
    /\ last.op = "try_start_recording" /\ last.ret = "false"
    /\ state \in Ids /\ state # last.id

\* C3: in OnDemand mode, when opening the stream fails during
\* try_start_recording, or the backend / recorder cannot be started, the call
\* returns false and the state is Idle with is_recording false.
C3_FailedStartStaysIdle ==
    \A id \in Ids, env \in Envs :
        (phase = "ready" /\ mode = "OnDemand" /\ state = Idle /\ dead = {}) =>
            LET open == start_microphone_stream(Mgr, {"state"}, env)
                r == try_start_recording(Mgr, {}, id, env) IN
            (\/ open.ret = "err"
             \/ open.ret = "ok" /\ start_session(open.m, {"state"}, id, env).ret = "false")
            => (r.ret = "false" /\ r.m.state = Idle /\ r.m.is_recording = FALSE)

\* C4: stop_recording(id) called in Recording{id} returns Some(segment), the
\* segment being what the active backend had buffered for the session; the
\* state becomes Idle and is_recording false; in OnDemand mode the stream is
\* closed when it returns, in AlwaysOn mode the stream stays as it was.
C4_StopReturnsSession ==
    [][(last'.op = "stop_recording" /\ state = last'.id /\ last'.ret # "hang")
        => /\ last'.ret = "some"
           /\ last'.raw = SessionBuffered
           /\ state' = Idle
           /\ is_recording' = FALSE
           /\ (mode = "OnDemand" => is_open' = FALSE)
           /\ (mode = "AlwaysOn" => is_open' = is_open)]_vars

\* C7: at most one capture backend is active in every reachable state.
ActiveBackends ==
    (IF recorder.open THEN 1 ELSE 0)
    + (IF system_capture.present /\ system_capture.capturing THEN 1 ELSE 0)

C7_AtMostOneBackend == ActiveBackends <= 1


\* every sample a backend still holds
Held == SampleIds(recorder.buf) \cup SampleIds(system_capture.buf)

\* C5: cancel_recording called in a Recording state discards the session's
\* buffered samples (no backend holds them afterwards), makes the state Idle
\* and is_recording false, and in OnDemand mode leaves the stream closed;
\* called in Idle it changes nothing.
C5_CancelDiscards ==
    [][(last'.op = "cancel_recording" /\ last'.ret # "hang")
        => IF state = Idle
           THEN UNCHANGED manager
           ELSE /\ state' = Idle
                /\ is_recording' = FALSE
                /\ (mode = "OnDemand" => is_open' = FALSE)
                /\ SampleIds(SessionBuffered) \cap Held' = {}]_vars

\* C5, as seen by the callers: no segment returned by a later stop_recording
\* contains a sample of a cancelled session.
C5_CancelledNeverReturned ==
    last.op = "stop_recording" => SampleIds(last.raw) \cap cancelled = {}

\* C8 as stated: from Idle with the stream open, two try_start_recording
\* calls in a row both return true and no backend is opened.
C8_BothSucceed ==
    \A id1 \in Ids, id2 \in Ids, env \in Envs :
        (phase = "ready" /\ state = Idle /\ is_open /\ dead = {}
         /\ env.open_ok /\ env.start_ok) =>
            LET r1 == try_start_recording(Mgr, {}, id1, env)
                r2 == try_start_recording(r1.m, {}, id2, env) IN
            r1.ret = "true" /\ r2.ret = "true" /\ r2.m.opens = 0

\* C8, amended: from Idle with the stream open, two try_start_recording calls
\* in a row open no backend; when the first returns true the second returns
\* false and the state stays Recording{first id}.
C8_SecondRefused ==
    \A id1 \in Ids, id2 \in Ids, env \in Envs :
        (phase = "ready" /\ state = Idle /\ is_open /\ dead = {}) =>
            LET r1 == try_start_recording(Mgr, {}, id1, env)
                r2 == try_start_recording(r1.m, {}, id2, env) IN
            /\ r1.m.opens = 0 /\ r2.m.opens = 0
            /\ r1.ret = "true" =>
                   (r2.ret = "false" /\ r2.m.state = id1 /\ r2.m = r1.m)

C8_Witness ==
    /\ phase = "ready" /\ state = Idle /\ is_open /\ dead = {}
    /\ mode = "OnDemand"
    /\ \E id1 \in Ids, id2 \in Ids, env \in Envs :
           LET r1 == try_start_recording(Mgr, {}, id1, env)
               r2 == try_start_recording(r1.m, {}, id2, env) IN
           r1.ret = "true" /\ r2.ret = "false" /\ r2.m.state = id1

\* C9: start_microphone_stream called while the stream is open returns Ok,
\* creates, starts or replaces no backend, and is_open stays true.
C9_OpenIsIdempotent ==
    \A env \in Envs :
        (phase = "ready" /\ is_open /\ dead = {}) =>
            LET r == start_microphone_stream(Mgr, {}, env) IN
            /\ r.ret = "ok"
            /\ r.m.opens = 0
            /\ r.m.is_open
            /\ r.m.recorder.present = recorder.present
            /\ r.m.recorder.open = recorder.open
            /\ r.m.system_capture.present = system_capture.present
            /\ r.m.system_capture.capturing = system_capture.capturing

\* C6 as stated: a segment shorter than 16000 samples is returned as exactly
\* 20000 samples, the original samples followed by zeros; a segment of 16000
\* samples or more is returned unchanged.
C6_EveryShortPadded ==
    pad_call.done =>
        LET len == SampleLen(pad_call.samples) IN
        IF len < 16000
        THEN /\ SampleLen(pad_call.returned) = 20000
             /\ TakeSamples(pad_call.returned, len) = pad_call.samples
             /\ SampleIds(DropSamples(pad_call.returned, len)) \subseteq {Zero}
        ELSE pad_call.returned = pad_call.samples

\* C6, amended: a non-empty segment shorter than 16000 samples is returned as
\* exactly 20000 samples, the original samples followed by zeros; an empty
\* segment and a segment of 16000 samples or more are returned unchanged.
C6_NonEmptyShortPadded ==
    pad_call.done =>
        LET len == SampleLen(pad_call.samples) IN
        IF 0 < len /\ len < 16000
        THEN /\ SampleLen(pad_call.returned) = 20000
             /\ TakeSamples(pad_call.returned, len) = pad_call.samples
             /\ SampleIds(DropSamples(pad_call.returned, len)) \subseteq {Zero}
        ELSE pad_call.returned = pad_call.samples

C6_Witness ==
    /\ pad_call.done
    /\ SampleLen(pad_call.samples) = 15999
    /\ 1 \in SampleIds(pad_call.samples)
    /\ SampleLen(pad_call.returned) = 20000

\* C10: the extracted segments in emission order followed by the current
\* accumulation buffer are, sample for sample and in order, everything that
\* was ever appended to the buffer.
C10_NoSampleLost ==
    Joined(Flatten(loop.segments) \o loop.accumulated_buffer) = Joined(loop.appended)

C10_Witness ==
    /\ Len(loop.segments) >= 2
    /\ SampleLen(loop.accumulated_buffer) = OVERLAP_SAMPLES
    /\ loop.resampler # <<>>

\* C11: an iteration of the loop extracts a segment exactly when the buffer
\* holds at least 32000 samples; the segment is everything but the last
\* 16000 samples, which stay in the buffer; and the buffer holds fewer than
\* 32000 samples at the end of every iteration.
C11_ExtractAtTwoSeconds ==
    /\ [](SampleLen(loop.accumulated_buffer) < 32000)
    /\ [][(last'.op = "loop" /\ loop'.running) =>
            LET w == loop'.window
                n == SampleLen(w) IN
            IF n >= 32000
            THEN /\ loop'.segments = Append(loop.segments, TakeSamples(w, n - 16000))
                 /\ loop'.accumulated_buffer = DropSamples(w, n - 16000)
                 /\ SampleLen(loop'.accumulated_buffer) = 16000
                 /\ Joined(loop'.segments[Len(loop'.segments)] \o loop'.accumulated_buffer)
                        = Joined(w)
            ELSE /\ loop'.segments = loop.segments
                 /\ loop'.accumulated_buffer = w]_vars

C11_Witness ==
    /\ last.op = "loop" /\ loop.running
    /\ SampleLen(loop.window) >= 32000
    /\ Len(loop.segments) >= 2
    /\ SampleLen(loop.accumulated_buffer) = 16000


\* C12: at any time at most one auto-transcription thread is running for
\* the manager.
C12_OneLoopThread == threads.running <= 1


\* C13: an iteration that finds always-on disabled or the source no longer
\* SystemAudio ends the thread without touching the manager or the backend's
\* buffer, and once the configuration has changed for good every loop thread
\* eventually terminates.
C13_ExitOnReconfiguration ==
    /\ [][(last'.op = "loop" /\ ~StillConfigured(settings)) =>
            /\ last'.ret = "break"
            /\ threads'.running = threads.running - 1
            /\ UNCHANGED <<manager, dead>>]_vars
    /\ (<>[](~StillConfigured(settings)) => <>[](threads.running = 0))

\* C13, the part about one iteration only: the thread ends, the manager and
\* the backend's buffer stay as they were and no segment is extracted
C13_ExitsInThatIteration ==
    [][(last'.op = "loop" /\ ~StillConfigured(settings)) =>
        /\ last'.ret = "break"
        /\ threads'.running = threads.running - 1
        /\ loop'.segments = loop.segments
        /\ UNCHANGED <<manager, dead>>]_vars


\* C14: an iteration of the loop that finds always-on mode and the SystemAudio
\* source still configured never ends the loop, whatever the backend returns
\* and whatever the recording state is: the thread keeps running
C14_FailureNeverEndsLoop ==
    [][(last'.op = "loop" /\ StillConfigured(settings)) =>
        /\ last'.ret # "break"
        /\ threads'.running = threads.running]_vars


\* callers inside the stop-then-restart section of update_selected_device
InSection == {c \in Callers : switch.pc[c] \in {"guarded", "stopping", "starting"}}

\* C15: at most one thread at a time is inside the stop-then-restart section
\* of update_selected_device, and a call that found a switch in flight
\* returns Ok without having stopped or started a backend itself
C15_SwitchSerialized ==
    /\ Cardinality(InSection) <= 1
    /\ switch.done.branch = "duplicate" =>
         /\ switch.done.ret = "ok"
         /\ ~switch.done.started
         /\ ~switch.done.stopped

\* C15, the serialization alone
C15_OneInSection == Cardinality(InSection) <= 1

\* C16: whenever a call of update_selected_device that acquired the in-flight
\* marker returns, with Ok or with the error of the restart, the marker is
\* clear; and a call that starts while no call holding the marker is in
\* flight takes the stop-then-restart branch itself
C16_MarkerReleased ==
    [][\A c \in Callers :
        /\ (c \in InSection /\ switch'.pc[c] = "idle") => ~switch'.IS_UPDATING
        /\ (/\ switch.pc[c] = "idle"
            /\ switch'.pc[c] # "idle"
            /\ InSection = {}
            /\ "IS_UPDATING" \notin dead) => switch'.pc[c] = "guarded"]_vars

\* a restart failed, the call returned its error, and the next call is
\* inside the stop-then-restart section
C16_Witness ==
    /\ switch.done.branch = "guarded"
    /\ switch.done.ret = "err"
    /\ switch.calls = 2
    /\ \E c \in Callers : switch.pc[c] = "starting"

\* C16 as stated: after a call that acquired the marker has returned, the
\* marker is clear and a later call goes on to stop and restart the stream
C16_LaterCallRestarts ==
    [][\A c \in Callers :
        /\ (c \in InSection /\ switch'.pc[c] = "idle") => ~switch'.IS_UPDATING
        /\ (/\ switch.done.branch = "guarded"
            /\ switch.pc[c] = "guarded"
            /\ switch'.pc[c] # "guarded") => switch'.pc[c] = "stopping"]_vars

LoopbackStarted ==
    /\ capture.op = "start_capture"
    /\ capture.env.device_found
    /\ capture.env.config_ok

\* C17: when a loopback device is found and its start returns no error,
\* start_capture returns Ok with the loopback backend capturing and spawns no
\* helper process, whether or not audio was detected in the probe window;
\* the helper is spawned only when no device was found or its start returned
\* an error
C17_CommitsToLoopback ==
    /\ LoopbackStarted =>
         /\ capture.ret = "ok"
         /\ capture.obj.is_capturing
         /\ capture.obj.use_blackhole
         /\ ~capture.spawned
         /\ ~capture.obj.capture_process
    /\ (capture.op = "start_capture" /\ capture.spawned) =>
         (~capture.env.device_found \/ ~capture.env.config_ok)

\* a loopback device that delivers a playing stream but no audio in the probe
\* window, with a helper that could have been started
C17_Witness ==
    /\ LoopbackStarted
    /\ StreamPlays(capture.env)
    /\ ~capture.env.audio
    /\ capture.env.helper_exists
    /\ capture.env.spawn_ok
    /\ capture.env.try_wait = "running"
    /\ capture.ret = "ok"

\* C18: when the loopback device's sample format is unsupported, or its
\* stream cannot be built or played, start_capture does not report the
\* loopback backend as capturing and goes on to the helper process
C18_BadFormatFallsBack ==
    (LoopbackStarted /\ ~StreamPlays(capture.env)) =>
        /\ ~(capture.obj.is_capturing /\ capture.obj.use_blackhole)
        /\ (capture.env.helper_exists /\ capture.env.spawn_ok) => capture.spawned

\* the last call was a start_capture that spawned the helper process
HelperSpawned ==
    /\ capture.op = "start_capture"
    /\ capture.spawned

\* C19: a helper process found exited after the grace window makes
\* start_capture return the permission-denied error, which no other failure
\* returns, with is_capturing false and no process handle held; a helper
\* still running makes it return Ok with is_capturing true
C19_HelperGraceCheck ==
    /\ (HelperSpawned /\ capture.env.try_wait = "exited") =>
         /\ capture.ret = "permission_denied"
         /\ ~capture.obj.is_capturing
         /\ ~capture.obj.capture_process
    /\ (HelperSpawned /\ capture.env.try_wait = "running") =>
         /\ capture.ret = "ok"
         /\ capture.obj.is_capturing
    /\ capture.ret = "permission_denied" =>
         (HelperSpawned /\ capture.env.try_wait = "exited")

\* the helper was tried after a loopback device failed to start, and had exited
C19_Witness ==
    /\ HelperSpawned
    /\ capture.env.try_wait = "exited"
    /\ capture.env.device_found
    /\ capture.ret = "permission_denied"

\* C21: start_capture called on a backend that is capturing returns success
\* and changes nothing: the running stream or process is not stopped or
\* replaced and the buffered samples stay in the buffer
C21_StartIdempotent ==
    [][(capture.obj.is_capturing /\ capture'.op = "start_capture") =>
        /\ capture'.ret = "ok"
        /\ ~capture'.stopped
        /\ capture'.obj = capture.obj]_vars

\* the helper process of the backend has exited or closed its stdout
HelperFailed ==
    /\ capture.obj.capture_process
    /\ ~capture.obj.helper_running

\* C22: once the helper process has failed after a successful start, the
\* backend is inactive (is_capturing false) and every read_samples returns
\* no data, until start_capture is called again
C22_FailureMarksInactive ==
    [][HelperFailed =>
        /\ ~capture.obj.is_capturing
        /\ capture'.op = "read_samples" => capture'.ret = "none"]_vars

\* the samples the capture source has produced, in order: the frames mixed
\* to one sample each for a loopback device, the samples of the audio buffer
\* lists for ScreenCaptureKit
SourceSamples ==
    IF data.backend = "ScreenCaptureKitAudio" THEN data.raw
    ELSE [i \in 1..Len(data.frames) |-> SumOf(data.frames[i]) \div data.channels]

\* C23: read_samples returns None exactly when the buffer is empty,
\* otherwise everything buffered, in order, and leaves the buffer empty;
\* whatever the interleaving of callbacks and reads, the read results in
\* sequence followed by the buffer are the samples the source produced, in
\* order, each once
C23_FifoDrain ==
    [][/\ data'.op = "read_samples" =>
            /\ data'.ret = "none" <=> data.sample_buffer = <<>>
            /\ data'.returned = data.sample_buffer
            /\ data'.sample_buffer = <<>>
       /\ data'.read \o data'.sample_buffer = SourceSamples']_vars

\* C25: every backend appends one sample per input frame, the mean of the
\* frame's channel values
C25_AlwaysMono ==
    data.read \o data.sample_buffer =
        [i \in 1..Len(data.frames) |-> SumOf(data.frames[i]) \div data.channels]

\* C24: the floats the helper backend has buffered (read results followed
\* by the buffer) are the floats of the whole byte stream read so far,
\* however the bytes were split across the reads
C24_NoTornSample ==
    data.read \o data.sample_buffer = floats_of(data.raw)

\* C26 as stated: for one segment the loop calls is_model_loaded at most 20
\* times
C26_AtMostTwentyPolls == data.polls <= MAX_WAIT

\* C26: for one segment the loop sleeps at most 20 times and calls
\* is_model_loaded at most 22 times, once before each sleep, once when the
\* wait ends and once after it; transcribe is reached only when that last
\* call reported the model loaded, and otherwise the segment is skipped and
\* the loop goes on with its next iteration
C26_BoundedWaitForModel ==
    /\ [](/\ data.slept <= MAX_WAIT
          /\ data.polls <= data.slept + 2
          /\ data.pc = "transcribe" => data.reported
          /\ data.transcribed + data.skipped
               = data.segments - (IF data.pc = "extract" THEN 0 ELSE 1))
    /\ [][data.pc = "if" /\ data'.pc # "if" =>
            IF data.loaded
            THEN data'.pc = "transcribe" /\ data'.skipped = data.skipped
            ELSE data'.pc = "extract" /\ data'.skipped = data.skipped + 1]_vars

\* C26: the model is still missing after 20 sleeps and the segment is skipped
C26_Witness ==
    /\ data.slept = MAX_WAIT
    /\ data.skipped = 1
    /\ data.pc = "extract"

\* the locks of the orchestrator the claim names
OrchestratorLocks == {"state", "mode", "is_open", "system_capture"}

\* C27: no call holds the state, mode, is_open or backend-handle lock while
\* it starts a backend (start_capture probes for audio, waits for the helper
\* process and starts hardware)
C27_NoLockAcrossStart == last.across_start \cap OrchestratorLocks = {}

\* C28: what the loop's resampler has delivered over all its push calls, and
\* the input it still keeps, are what one push of the concatenation of all
\* the blocks into a new resampler delivers and keeps; an iteration that
\* drained nothing changes neither
C28_ChunkingIndependent ==
    LET once == resampler_push(<<>>, Flatten(loop.pushed)) IN
    /\ Joined(loop.appended) = Joined(once.out)
    /\ Joined(loop.resampler) = Joined(once.pending)
    /\ resampler_push(loop.resampler, <<>>) = [out |-> <<>>, pending |-> loop.resampler]

\* C28: two blocks were pushed, the first of them ending inside a frame
C28_Witness ==
    /\ Len(loop.pushed) >= 2
    /\ SampleLen(loop.pushed[1]) % FrameIn # 0
    /\ loop.appended # <<>>

\* the last n frames fed were all classified as speech
SpeechRun(fed, n) ==
    /\ Len(fed) >= n
    /\ \A i \in (Len(fed) - n + 1)..Len(fed) : fed[i]

\* the number of the last frame emitted, 0 when none was
LastEmitted(d) == IF d.emitted = <<>> THEN 0 ELSE d.emitted[Len(d.emitted)]

\* C29: with an attack threshold N > 1 the smoothed state switches to speech
\* only at the end of N consecutive speech frames (so never on a speech frame
\* between two non-speech frames), N consecutive speech frames always switch
\* it, and the output at the switch is the buffered pre-roll (the up to P
\* frames fed just before and not yet emitted) followed by the N triggering
\* frames, in order
C29_Hysteresis ==
    [][LET N == data.attack
           n == Len(data'.fed)
           lo == IF n - N - data.preroll + 1 > LastEmitted(data) + 1
                 THEN n - N - data.preroll + 1 ELSE LastEmitted(data) + 1 IN
       /\ (~data.in_speech /\ data'.in_speech) => SpeechRun(data'.fed, N)
       /\ (~data.in_speech /\ SpeechRun(data'.fed, N)) => data'.in_speech
       /\ (~data.in_speech /\ data'.in_speech) =>
              data'.out = [i \in 1..(n - lo + 1) |-> lo + i - 1]]_vars

\* C29: the state switches to speech with a full pre-roll in the output
C29_Witness ==
    /\ data.in_speech
    /\ Len(data.out) = data.attack + data.preroll
    /\ data.attack > 1

C32_UpdateModeReturns ==
    [][last'.op = "update_mode" =>
        /\ last'.ret # "hang"
        /\ last'.ret = "ok" => mode' = last'.id]_vars

\* C33: with no lock left held by an earlier call, try_start_recording and
\* start_microphone_stream return, whatever the mode, the always-on setting,
\* the audio source and is_open are
C33_StartsReturn ==
    [][(dead = {} /\ last'.op \in {"try_start_recording", "start_microphone_stream"})
        => last'.ret # "hang"]_vars

\* thread t waits at a lock() for a lock that has an owner
WaitsForLock(t) ==
    /\ AtLock(data, t).k = "lock"
    /\ \E n \in 1..Len(data.owner) : data.owner[n].l = AtLock(data, t).l

\* C34: no interleaving of two calls into the manager leaves both threads
\* waiting for a lock (each for one the other holds)
C34_NoDeadlock == ~(\A t \in LockThreads : WaitsForLock(t))

\* C35: when stop_recording(id1) returns while the session of another
\* binding id2, started by a try_start_recording that returned true during
\* the stop, is running, that session is left as it was (state Recording of
\* id2, is_recording true, stream open) and the segment returned for id1
\* holds no block produced since the session of id2 started
C35_StopEndsOwnSessionOnly ==
    [][(/\ data.stop.pc = "finish"
        /\ data'.stop.pc = "-"
        /\ data.m.state \notin {Idle, data.stop.id})
       => /\ data'.m.state = data.m.state
          /\ data'.m.is_recording
          /\ data'.m.is_open
          /\ \A b \in SampleIds(data'.seg) : b <= data.from]_vars

\* C36: a get_system_audio_status call that returns leaves the sample
\* buffer of the system-audio backend, is_open and the recording state as
\* they were
C36_StatusIsPureQuery ==
    [][(last'.op = "get_system_audio_status" /\ last'.ret # "hang")
       => /\ system_capture'.buf = system_capture.buf
          /\ is_open' = is_open
          /\ state' = state]_vars

\* C37: whenever no manager operation is in progress and none has hung, the
\* is_recording flag is true exactly when the recording state is Recording
C37_FlagMatchesState ==
    (phase = "ready" /\ dead = {}) => (is_recording <=> state # Idle)

\* C38: whenever no manager operation is in progress and none has hung, in
\* OnDemand mode with the state Idle the stream is closed and no backend is
\* active
C38_OnDemandIdleClosed ==
    (phase = "ready" /\ dead = {} /\ mode = "OnDemand" /\ state = Idle)
    => /\ ~is_open
       /\ ~system_capture.present
       /\ ~recorder.open

\* C39: when update_microphone_mode(always_on) has returned, with Ok or with
\* an error, the mode is AlwaysOn exactly when the always_on_microphone
\* setting is true
C39_ModeMatchesSetting ==
    [][(last'.op = "update_mode" /\ last'.ret # "hang")
       => (mode' = "AlwaysOn" <=> settings'.always_on_microphone)]_vars

\* the family of the backend that is open in manager m
OpenFamily(m) ==
    IF m.system_capture.present /\ m.system_capture.capturing THEN "SystemAudio"
    ELSE IF m.recorder.open THEN "Microphone"
    ELSE "-"

\* C40: once the update_selected_device call of every request made has
\* returned Ok and the stream is open, the open backend is of the family
\* the audio_source setting names
C40_NoSwitchLost ==
    (/\ data.requests > 0
     /\ \A c \in Callers : data.pc[c] = "idle"
     /\ ~data.failed
     /\ data.m.is_open)
    => OpenFamily(data.m) = data.m.settings.audio_source

=============================================================================
